---- MODULE Spec2Model ----
(***************************************************************************)
(* GPU fleet manager: job state machine, allocation engine and the         *)
(* service layer, as state machines.                                       *)
(*                                                                         *)
(* The repository holds four stacks that never share a table:             *)
(*   "core"    JobManager -> GPUAllocator -> CostTracker, over the gpus    *)
(*             and jobs tables (src/core, src/utils/cost_tracker.py,       *)
(*             src/db/enhanced_repository.py), with GPUOptimizer           *)
(*             rebalancing over the same tables;                           *)
(*   "service" the /job routes -> JobService -> GPUService, and the        *)
(*             /jobs endpoints of src/api/jobs.py, over the gpu_resources  *)
(*             and jobs REST tables (src/services, src/api);               *)
(*   "demo"    JobLifecycleDemo over Repository, on the gpus and gpu_jobs  *)
(*             REST tables (src/demo, src/db/repository.py);               *)
(*   "spot"    SpotManager and its spot GPU rows (src/utils).              *)
(* The variable deployment says which stack a behaviour runs; the other    *)
(* stacks' tables stay as constructed.                                     *)
(*                                                                         *)
(* Collaborators are linked by role: JobManager's allocator is             *)
(* GPUAllocator, its repository is the one with get_job/update_job/        *)
(* list_jobs (EnhancedRepository), and release_gpu(job.gpu_id) is          *)
(* GPUAllocator.release_gpu on the GPU with that id and the job the        *)
(* handler holds.  Columns are read under the names the code uses.         *)
(* An await is a scheduling point: what lies between two awaits of a       *)
(* handler is one step.                                                    *)
(***************************************************************************)
EXTENDS Integers, Sequences, FiniteSets, TLC

\* ------------------------------------------------------------- bounds
NumGpus == 2
NumJobs == 2
NumRequests == 2
MaxActive == 2
NumProvisions == 2
MaxSpotRows == 3
NumThreads == 2
MaxCalls == 3
MaxBacklog == 11

GpuIds == 1..NumGpus
JobIds == 1..NumJobs
Requests == 1..NumRequests
NoGpu == 0
NoJob == 0

\* ------------------------------------------------- program constants
DEFAULT_GPU_MEMORY == 8000
MIN_GPU_MEMORY == 4000
MAX_JOBS_PER_GPU == 4

QUEUED == "queued"
RUNNING == "running"
COMPLETED == "completed"
FAILED == "failed"
CANCELLED == "cancelled"
ABSENT == "absent"
PENDING == "pending"
JobStatus == {QUEUED, RUNNING, COMPLETED, FAILED, CANCELLED}
Terminal == {COMPLETED, FAILED, CANCELLED}

AVAILABLE == "available"
IN_USE == "in_use"

\* What a submission may ask for: the model and the memory_required the
\* job record carries (base memory x batch size x 1.2 at submission).
JobSpecs ==
  { [model_name |-> "custom", memory_required |-> 8000],
    [model_name |-> "custom", memory_required |-> 10000],
    [model_name |-> "phi-2", memory_required |-> 19200] }

Max(a, b) == IF a >= b THEN a ELSE b
Abs(a) == IF a >= 0 THEN a ELSE 0 - a

\* ---------------------------------------------------------- core: state
VARIABLES
  deployment,     \* which stack a behaviour runs: "core", "service", "demo" or "spot"
  gpus,           \* gpus table: id -> [status, available_memory, current_job_count]
  jobs,           \* jobs table: id -> [status, gpu_id, model_name, memory_required]
  usage_history,  \* CostTracker.usage_history: gpu id -> session (NoSession if none)
  worker,         \* one context per running JobManager handler
  runner,         \* ModelRunner: job id -> "idle" | "running" (a callback is owed)
  gpu_resources,  \* gpu_resources table: id -> [status, memory_allocated, current_job_id]
  svc_jobs,       \* jobs REST table: id -> [status, gpu_id, memory_required]
  req,            \* one context per in-flight HTTP request
  trip,           \* history: the last allocate/release round trip seen on each GPU
  fleet,          \* the registered GPUs: id -> [organization_id, total_memory, cost_per_hour]
  max_jobs,       \* settings.MAX_JOBS_PER_GPU as the environment configures it
  call,           \* a call of a function taken on its own: its arguments and its result
  cancel_error,   \* history: the job whose cancel was refused by the last step, if any
  demo_gpus,      \* gpus REST table of the lifecycle demo: id -> [status, job_id]
  gpu_jobs,       \* gpu_jobs REST table of the demo: id -> [status, gpu_id, min_memory]
  demo,           \* the demo script: where it stands and what it holds
  spot_gpus,      \* the spot GPU rows SpotManager has added, oldest first
  provision,      \* one context per running provision_gpu call
  nvml,           \* utils/gpu_metrics module state and the NVML library's call history
  thread,         \* one context per thread calling initialize_nvml / shutdown_nvml
  backlog         \* an organization's job rows in store order: [fits, status]

vars == <<deployment, gpus, jobs, usage_history, worker, runner,
          gpu_resources, svc_jobs, req, trip, fleet, max_jobs, call, cancel_error,
          demo_gpus, gpu_jobs, demo, spot_gpus, provision, nvml, thread, backlog>>
coreVars == <<gpus, jobs, usage_history, worker, runner>>
svcVars == <<gpu_resources, svc_jobs, req>>
demoVars == <<demo_gpus, gpu_jobs, demo>>
spotVars == <<spot_gpus, provision>>
nvmlVars == <<nvml, thread>>

\* The fleet registered at start: owning organization, total memory (MB)
\* and hourly cost (cents) of each GPU; every GPU has compute capability 8.0.
GpuTotal(g) == fleet[g].total_memory
GpuCost(g) == fleet[g].cost_per_hour
GpuCapability(g) == "8.0"
GpuOrg(g) == fleet[g].organization_id
JobOrg(j) == "org_a"

\* Two fleets: one organization owning both GPUs, and one GPU each.
Fleet(owner2) ==
  [g \in GpuIds |-> [organization_id |-> IF g = 2 THEN owner2 ELSE "org_a",
                     total_memory |-> IF g = 1 THEN 16000 ELSE 24000,
                     cost_per_hour |-> IF g = 1 THEN 60 ELSE 90]]
Fleets == {Fleet("org_a"), Fleet("org_b")}

\* The fleets a stack is run over: the core and the fallback over one GPU per organization,
\* the service and the spot manager over the shared fleet, the demo over both.
FleetsOf(stack) ==
  CASE stack \in {"core", "fallback"} -> {Fleet("org_b")}
    [] stack = "demo" -> Fleets
    [] OTHER -> {Fleet("org_a")}

\* The job limits a stack is run under: the default, and for the core (the
\* only stack that reads the setting) also a limit of no job per GPU.
JobLimits(stack) == IF stack = "core" THEN {MAX_JOBS_PER_GPU, 0} ELSE {MAX_JOBS_PER_GPU}

\* ------------------------------------------- GPUAllocator: requirements
ModelMinMemory(model_name) ==
  CASE model_name = "phi-2" -> 16000
    [] model_name = "deepseek-coder" -> 24000
    [] model_name = "stable-diffusion-xl" -> 12000
    [] OTHER -> DEFAULT_GPU_MEMORY

ModelCapability(model_name) ==
  CASE model_name = "phi-2" -> "8.0"
    [] model_name = "deepseek-coder" -> "8.0"
    [] model_name = "stable-diffusion-xl" -> "7.5"
    [] OTHER -> "any"

\* allocate_for_job: min_memory is raised to MIN_GPU_MEMORY when below it.
RequiredMinMemory(model_name) == Max(ModelMinMemory(model_name), MIN_GPU_MEMORY)

\* _find_available_gpu: the WHERE clause.
Eligible(g, org, min_memory, capability) ==
  /\ GpuOrg(g) = org
  /\ gpus[g].status = AVAILABLE
  /\ gpus[g].available_memory >= min_memory
  /\ capability = "any" \/ GpuCapability(g) = capability

\* _find_available_gpu: ORDER BY abs(available_memory - min_memory),
\* cost_per_hour; first().  Rows equal on both keys come in any order.
BestFit(org, min_memory, capability) ==
  LET cands == {g \in GpuIds : Eligible(g, org, min_memory, capability)}
      Key(g) == <<Abs(gpus[g].available_memory - min_memory), GpuCost(g)>>
      Before(a, b) == \/ Key(a)[1] < Key(b)[1]
                      \/ Key(a)[1] = Key(b)[1] /\ Key(a)[2] <= Key(b)[2]
  IN {g \in cands : \A h \in cands : Before(g, h)}

\* _allocate_gpu: the GPU row after the three assignments.
AllocatedGpu(row, memory_required) ==
  [row EXCEPT !.status = IN_USE,
              !.available_memory = @ - memory_required,
              !.current_job_count = @ + 1]

\* A release that gives the memory and the count back but leaves the status
\* as it finds it: the variant the round trip of C7 tells apart.
ReleasedGpuKeepingStatus(row, memory_required) ==
  [row EXCEPT !.available_memory = @ + memory_required,
              !.current_job_count = Max(0, @ - 1)]

\* _allocate_gpu: the check made after the count is incremented.
NoJobLimit(row) == TRUE
WithinJobLimit(row) == row.current_job_count <= max_jobs

\* release_gpu: the GPU row after the assignments.
ReleasedGpu(row, memory_required) ==
  LET count == Max(0, (IF row.current_job_count = 0 THEN 1
                       ELSE row.current_job_count) - 1)
  IN [row EXCEPT !.available_memory = @ + memory_required,
                 !.current_job_count = count,
                 !.status = IF count = 0 THEN AVAILABLE ELSE @]

\* ------------------------------------------------------ core: handlers
Workers == {"create", "cancel", "complete"} \X JobIds

IdleWorker ==
  [pc |-> "idle", was |-> ABSENT, gpu |-> NoGpu, success |-> FALSE,
   todo |-> <<>>, got |-> NoGpu]

NoTrip(row) ==
  [phase |-> "none", job |-> NoJob, pre |-> row, post |-> row, after |-> row]

\* What a call into the store, the cost tracker or the runner may do.
Outcomes == {"ok", "raises"}

\* The permutations of a set of job ids: list_jobs has no ORDER BY.
Orderings(S) ==
  {q \in [1..Cardinality(S) -> S] : \A a, b \in 1..Cardinality(S) : a # b => q[a] # q[b]}

\* The handlers in flight; a new one starts only below MaxActive.
Active == {w \in Workers : worker[w].pc # "idle"}
MayStart == Cardinality(Active) < MaxActive

\* A worker that has finished the head of its sweep.
Popped(w) ==
  LET rest == Tail(worker[w].todo)
  IN IF rest = <<>> THEN IdleWorker
     ELSE [worker[w] EXCEPT !.pc = "try", !.todo = rest, !.got = NoGpu]

\* EnhancedRepository.update_job: every JobUpdate field is written, the
\* unset ones as null, so gpu_id is written on every update.
UpdatedJob(row, status, gpu_id) == [row EXCEPT !.status = status, !.gpu_id = gpu_id]

\* CostTracker.start_tracking: usage_history[gpu_id] is assigned a new
\* session, whatever was there.  job is history: the job the session was
\* started for.
NoSession == [state |-> "none", job |-> NoJob]
StartedTracking(h, g, j) == [h EXCEPT ![g] = [state |-> "open", job |-> j]]

\* CostTracker.stop_tracking: closes the session if the GPU has one.
StoppedTracking(h, g) ==
  IF h[g].state = "none" THEN h ELSE [h EXCEPT ![g].state = "closed"]

\* JobManager.create_job: the job is stored QUEUED, then tried at once.
CreateJob(j, spec) ==
  /\ deployment = "core"
  /\ jobs[j].status = ABSENT
  /\ worker[<<"create", j>>].pc = "idle"
  /\ MayStart
  /\ jobs' = [jobs EXCEPT ![j] = [status |-> QUEUED, gpu_id |-> NoGpu,
                                   model_name |-> spec.model_name,
                                   memory_required |-> spec.memory_required]]
  /\ worker' = [worker EXCEPT ![<<"create", j>>] =
                   [IdleWorker EXCEPT !.pc = "try", !.todo = <<j>>]]
  /\ UNCHANGED <<deployment, gpus, usage_history, runner, trip>>
  /\ UNCHANGED <<svcVars, demoVars, spotVars, fleet, max_jobs, backlog, nvmlVars, call>>
  /\ cancel_error' = NoJob

\* _try_allocate_and_start, first await: GPUAllocator.allocate_for_job
\* finds no GPU and returns None; the job is left as it is.  (JobManager
\* builds its allocator without a spot manager, so the fallback is skipped.)
TryAllocateMiss(w) ==
  LET j == Head(worker[w].todo)
  IN /\ BestFit(JobOrg(j), RequiredMinMemory(jobs[j].model_name),
                 ModelCapability(jobs[j].model_name)) = {}
     /\ worker' = [worker EXCEPT ![w] = Popped(w)]
     /\ UNCHANGED <<deployment, gpus, jobs, usage_history, runner, trip>>

\* allocate_for_job finds g and _allocate_gpu commits: the GPU row is
\* changed and a cost session opened; the handler holds the GPU.
TryAllocateHit(w, g) ==
  LET j == Head(worker[w].todo)
      row == AllocatedGpu(gpus[g], jobs[j].memory_required)
  IN /\ g \in BestFit(JobOrg(j), RequiredMinMemory(jobs[j].model_name),
                       ModelCapability(jobs[j].model_name))
     /\ WithinJobLimit(row)
     /\ gpus' = [gpus EXCEPT ![g] = row]
     /\ usage_history' = StartedTracking(usage_history, g, j)
     /\ worker' = [worker EXCEPT ![w].pc = "update", ![w].got = g]
     /\ trip' = [trip EXCEPT ![g] = [phase |-> "allocated", job |-> j,
                                     pre |-> gpus[g], post |-> row, after |-> row]]
     /\ UNCHANGED <<deployment, jobs, runner>>

\* _allocate_gpu raises (job limit, start_tracking or commit): the session
\* is rolled back, AllocationError reaches _try_allocate_and_start, whose
\* except branch writes FAILED.  A session opened before a failed commit
\* stays in the tracker's dictionary.
TryAllocateRaises(w, g, at) ==
  LET j == Head(worker[w].todo)
      row == AllocatedGpu(gpus[g], jobs[j].memory_required)
  IN /\ g \in BestFit(JobOrg(j), RequiredMinMemory(jobs[j].model_name),
                       ModelCapability(jobs[j].model_name))
     /\ \/ at = "limit" /\ ~WithinJobLimit(row)
        \/ at \in {"tracking", "commit"} /\ WithinJobLimit(row)
     /\ usage_history' = IF at = "commit" THEN StartedTracking(usage_history, g, j)
                         ELSE usage_history
     /\ jobs' = [jobs EXCEPT ![j] = UpdatedJob(@, FAILED, NoGpu)]
     /\ worker' = [worker EXCEPT ![w] = Popped(w)]
     /\ UNCHANGED <<deployment, gpus, runner, trip>>

TryAllocate(w) ==
  /\ deployment = "core"
  /\ worker[w].pc = "try"
  /\ \/ TryAllocateMiss(w)
     \/ \E g \in GpuIds : TryAllocateHit(w, g)
     \/ \E g \in GpuIds, at \in {"limit", "tracking", "commit"} : TryAllocateRaises(w, g, at)
  /\ UNCHANGED <<svcVars, demoVars, spotVars, fleet, max_jobs, backlog, nvmlVars, call>>
  /\ cancel_error' = NoJob

\* _try_allocate_and_start, second await: update_job(RUNNING, gpu_id), then
\* _start_job_execution.  If the update raises the except branch writes
\* FAILED and the GPU stays as allocated.  If run_job_async raises,
\* _handle_job_completion is called without await and never runs.
TryUpdate(w, update, start) ==
  LET j == Head(worker[w].todo)
  IN /\ deployment = "core"
     /\ worker[w].pc = "update"
     /\ jobs' = [jobs EXCEPT ![j] =
                   IF update = "ok" THEN UpdatedJob(@, RUNNING, worker[w].got)
                   ELSE UpdatedJob(@, FAILED, NoGpu)]
     /\ runner' = IF update = "ok" /\ start = "ok" THEN [runner EXCEPT ![j] = "running"]
                  ELSE runner
     /\ worker' = [worker EXCEPT ![w] = Popped(w)]
     /\ UNCHANGED <<deployment, gpus, usage_history, trip>>
     /\ UNCHANGED <<svcVars, demoVars, spotVars, fleet, max_jobs, backlog, nvmlVars, call>>
     /\ cancel_error' = NoJob

\* GPUAllocator.release_gpu(gpu, job) up to its commit, and the history of
\* the round trip it may close.
ReleaseCommitted(g, j) ==
  LET row == ReleasedGpu(gpus[g], jobs[j].memory_required)
  IN /\ gpus' = [gpus EXCEPT ![g] = row]
     /\ usage_history' = StoppedTracking(usage_history, g)
     /\ trip' = [trip EXCEPT ![g] =
                   IF @.phase = "allocated" /\ @.job = j /\ @.post = gpus[g]
                   THEN [@ EXCEPT !.phase = "released", !.after = row]
                   ELSE NoTrip(row)]

\* cancel_job (JobManager, and POST /jobs/{id}/cancel): the statuses it accepts.
CancellableWhatever(status) == status # ABSENT
Cancellable(status) == status \in {QUEUED, RUNNING}

\* JobManager.cancel_job, first await: get_job and the status check.
CancelRead(j) ==
  LET w == <<"cancel", j>>
  IN /\ deployment = "core"
     /\ worker[w].pc = "idle"
     /\ MayStart
     /\ Cancellable(jobs[j].status)
     /\ worker' = [worker EXCEPT ![w] = [IdleWorker EXCEPT !.pc = "cancel_update",
                                           !.was = jobs[j].status,
                                           !.gpu = jobs[j].gpu_id]]
     /\ UNCHANGED <<deployment, gpus, jobs, usage_history, runner, trip>>
     /\ UNCHANGED <<svcVars, demoVars, spotVars, fleet, max_jobs, backlog, nvmlVars, call>>
     /\ cancel_error' = NoJob

\* cancel_job on a job that is neither QUEUED nor RUNNING: ValueError is
\* raised after the read and nothing is written.  (The call is one step;
\* it is looked at when no other handler is in flight.)
CancelRefused(j) ==
  /\ deployment = "core"
  /\ Active = {}
  /\ jobs[j].status # ABSENT
  /\ ~Cancellable(jobs[j].status)
  /\ cancel_error' = j
  /\ UNCHANGED <<deployment, trip, fleet, max_jobs, backlog, nvmlVars, call, coreVars, svcVars, demoVars, spotVars>>

\* cancel_job: whether the GPU is released after the update, decided on the
\* job as it was read.
CancelAlwaysReleases(was, gpu) == TRUE
CancelReleases(was, gpu) == was = RUNNING /\ gpu # NoGpu

\* cancel_job, second await: update_job(CANCELLED).  The GPU is released
\* afterwards, and only if the job read was RUNNING with a gpu_id.
CancelUpdate(j, update) ==
  LET w == <<"cancel", j>>
  IN /\ deployment = "core"
     /\ worker[w].pc = "cancel_update"
     /\ jobs' = IF update = "ok" THEN [jobs EXCEPT ![j] = UpdatedJob(@, CANCELLED, NoGpu)]
                ELSE jobs
     /\ worker' = [worker EXCEPT ![w] =
                     IF update = "ok" /\ CancelReleases(worker[w].was, worker[w].gpu)
                     THEN [@ EXCEPT !.pc = "cancel_release"]
                     ELSE IdleWorker]
     /\ UNCHANGED <<deployment, gpus, usage_history, runner, trip>>
     /\ UNCHANGED <<svcVars, demoVars, spotVars, fleet, max_jobs, backlog, nvmlVars, call>>
     /\ cancel_error' = NoJob

\* cancel_job, third await: release_gpu(job.gpu_id), then _process_queue.
\* If the release raises (it does when no GPU has that id) it is rolled
\* back and cancel_job raises.
CancelRelease(j, release) ==
  LET w == <<"cancel", j>>
  IN /\ deployment = "core"
     /\ worker[w].pc = "cancel_release"
     /\ IF release = "ok" /\ worker[w].gpu \in GpuIds
        THEN /\ ReleaseCommitted(worker[w].gpu, j)
             /\ worker' = [worker EXCEPT ![w].pc = "sweep"]
        ELSE /\ worker' = [worker EXCEPT ![w] = IdleWorker]
             /\ UNCHANGED <<gpus, usage_history, trip>>
     /\ UNCHANGED <<deployment, jobs, runner>>
     /\ UNCHANGED <<svcVars, demoVars, spotVars, fleet, max_jobs, backlog, nvmlVars, call>>
     /\ cancel_error' = NoJob

\* The runner's callback _handle_job_completion, first await: get_job.
CompletionRead(j, success) ==
  LET w == <<"complete", j>>
  IN /\ deployment = "core"
     /\ runner[j] = "running"
     /\ worker[w].pc = "idle"
     /\ MayStart
     /\ runner' = [runner EXCEPT ![j] = "idle"]
     /\ worker' = [worker EXCEPT ![w] = [IdleWorker EXCEPT !.pc = "complete_update",
                                           !.was = jobs[j].status,
                                           !.gpu = jobs[j].gpu_id,
                                           !.success = success]]
     /\ UNCHANGED <<deployment, gpus, jobs, usage_history, trip>>
     /\ UNCHANGED <<svcVars, demoVars, spotVars, fleet, max_jobs, backlog, nvmlVars, call>>
     /\ cancel_error' = NoJob

\* _handle_job_completion, second await: update_job(COMPLETED or FAILED),
\* whatever the job's status is by now.  If it raises, the except branch
\* logs and the handler ends: the release below is not reached.
CompletionUpdate(j, update) ==
  LET w == <<"complete", j>>
      status == IF worker[w].success THEN COMPLETED ELSE FAILED
  IN /\ deployment = "core"
     /\ worker[w].pc = "complete_update"
     /\ jobs' = IF update = "ok" THEN [jobs EXCEPT ![j] = UpdatedJob(@, status, NoGpu)]
                ELSE jobs
     /\ worker' = [worker EXCEPT ![w] =
                     IF update # "ok" THEN IdleWorker
                     ELSE IF worker[w].gpu # NoGpu THEN [@ EXCEPT !.pc = "complete_release"]
                     ELSE [@ EXCEPT !.pc = "sweep"]]
     /\ UNCHANGED <<deployment, gpus, usage_history, runner, trip>>
     /\ UNCHANGED <<svcVars, demoVars, spotVars, fleet, max_jobs, backlog, nvmlVars, call>>
     /\ cancel_error' = NoJob

\* _handle_job_completion, third await: release_gpu(job.gpu_id) for the
\* gpu_id read at the first await, then _process_queue.
CompletionRelease(j, release) ==
  LET w == <<"complete", j>>
  IN /\ deployment = "core"
     /\ worker[w].pc = "complete_release"
     /\ IF release = "ok"
        THEN /\ ReleaseCommitted(worker[w].gpu, j)
             /\ worker' = [worker EXCEPT ![w].pc = "sweep"]
        ELSE /\ worker' = [worker EXCEPT ![w] = IdleWorker]
             /\ UNCHANGED <<gpus, usage_history, trip>>
     /\ UNCHANGED <<deployment, jobs, runner>>
     /\ UNCHANGED <<svcVars, demoVars, spotVars, fleet, max_jobs, backlog, nvmlVars, call>>
     /\ cancel_error' = NoJob

\* _process_queue: list_jobs(status=QUEUED, limit=10), then each job in
\* turn through _try_allocate_and_start.
ProcessQueue(w) ==
  LET queued == {j \in JobIds : jobs[j].status = QUEUED /\ JobOrg(j) = JobOrg(w[2])}
  IN /\ deployment = "core"
     /\ worker[w].pc = "sweep"
     /\ \E order \in Orderings(queued) :
          worker' = [worker EXCEPT ![w] =
                       IF queued = {} THEN IdleWorker
                       ELSE [IdleWorker EXCEPT !.pc = "try", !.todo = order]]
     /\ UNCHANGED <<deployment, gpus, jobs, usage_history, runner, trip>>
     /\ UNCHANGED <<svcVars, demoVars, spotVars, fleet, max_jobs, backlog, nvmlVars, call>>
     /\ cancel_error' = NoJob

\* ------------------------------------------------------ core: optimizer
\* GPUOptimizer.model_configs.
BatchModels == {"phi-2", "deepseek-coder", "stable-diffusion-xl"}

MaxBatchSize(model_name) == IF model_name = "deepseek-coder" THEN 2 ELSE 4

BaseMemory(model_name) ==
  CASE model_name = "phi-2" -> 16000
    [] model_name = "deepseek-coder" -> 24000
    [] OTHER -> 12000

\* Every submission carries a prompt of this many characters and the
\* default priority, and the jobs of one pass are of about the same age.
PromptLength == 1000

\* _calculate_batch_memory for n jobs of a model: base memory plus 3000 per
\* image, or plus (1.5 tokens per character) x memory_per_token x n.
BatchMemory(model_name, n) ==
  IF n = 0 THEN 0
  ELSE IF model_name = "stable-diffusion-xl" THEN BaseMemory(model_name) + 3000 * n
  ELSE LET max_tokens == (PromptLength * 3) \div 2
           per_token_halves == IF model_name = "phi-2" THEN 1 ELSE 2
       IN BaseMemory(model_name) + (max_tokens * per_token_halves * n) \div 2

\* _find_optimal_batch over the jobs of one model, in query order: with
\* equal priorities the score grows with the batch size and, at one size,
\* is highest for the earliest window, so the best batch is the longest
\* prefix that fits (none when not even one job fits).
OptimalBatchSize(model_name, count, available_memory) ==
  LET sizes == {k \in 1..count : /\ k <= MaxBatchSize(model_name)
                                 /\ BatchMemory(model_name, k) <= available_memory}
  IN IF sizes = {} THEN 0 ELSE CHOOSE k \in sizes : \A h \in sizes : h <= k

\* _calculate_batch_score up to the common factor priority x (1 + age):
\* k x (1 + k / max_batch_size), as the pair <<numerator, denominator>>.
BatchScore(model_name, k) ==
  <<k * (MaxBatchSize(model_name) + k), MaxBatchSize(model_name)>>

\* _get_candidate_jobs: the QUEUED jobs of a batching model, of whatever
\* organization, in the order given.
CandidateJobs(table, order) ==
  SelectSeq(order, LAMBDA j : table[j].status = QUEUED /\ table[j].model_name \in BatchModels)

\* optimize_gpu_allocation: the best batch over the model groups; a later
\* group wins only with a strictly higher score.
OptimizedBatch(table, order, available_memory) ==
  LET cands == CandidateJobs(table, order)
      Group(m) == SelectSeq(cands, LAMBDA j : table[j].model_name = m)
      Size(m) == OptimalBatchSize(m, Len(Group(m)), available_memory)
      First(m) == CHOOSE i \in 1..Len(cands) : table[cands[i]].model_name = m
                     /\ \A h \in 1..(i - 1) : table[cands[h]].model_name # m
      models == {table[cands[i]].model_name : i \in 1..Len(cands)}
      Better(a, b) == \* group a beats group b
        LET sa == BatchScore(a, Size(a))
            sb == BatchScore(b, Size(b))
        IN \/ sa[1] * sb[2] > sb[1] * sa[2]
           \/ sa[1] * sb[2] = sb[1] * sa[2] /\ First(a) <= First(b)
      scoring == {m \in models : Size(m) > 0}
  IN IF scoring = {} THEN {}
     ELSE LET best == CHOOSE m \in scoring : \A o \in scoring : Better(m, o)
          IN {Group(best)[i] : i \in 1..Size(best)}

\* _is_gpu_underutilized: no RUNNING job on the GPU, or the jobs there are
\* of a batching model and fill under half a batch or under 40% of memory.
Underutilized(table, g) ==
  LET current_jobs == {j \in JobIds : table[j].gpu_id = g /\ table[j].status = RUNNING}
  IN \/ current_jobs = {}
     \/ \E j \in current_jobs :
          /\ table[j].model_name \in BatchModels
          /\ \/ 2 * Cardinality(current_jobs) < MaxBatchSize(table[j].model_name)
             \/ 10 * (GpuTotal(g) - gpus[g].available_memory) < 4 * GpuTotal(g)

\* _migrate_jobs_to_gpu: the jobs of the batch are assigned the GPU and
\* marked PENDING; no GPU column is written.
MigratedJobs(table, batch, g) ==
  [j \in JobIds |-> IF j \in batch THEN [table[j] EXCEPT !.gpu_id = g, !.status = PENDING]
                    ELSE table[j]]

\* rebalance_gpus over the GPUs in the order the query gave them.
RECURSIVE RebalancedJobs(_, _, _)
RebalancedJobs(table, gpu_order, job_order) ==
  IF gpu_order = <<>> THEN table
  ELSE LET g == Head(gpu_order)
           new_jobs == IF Underutilized(table, g)
                       THEN OptimizedBatch(table, job_order, gpus[g].available_memory)
                       ELSE {}
       IN RebalancedJobs(MigratedJobs(table, new_jobs, g), Tail(gpu_order), job_order)

\* GPUOptimizer.rebalance_gpus: it has no await that suspends, so one pass
\* is one step.  Both queries come in an order the store chooses.
RebalanceGpus(gpu_order, job_order) ==
  /\ deployment = "core"
  /\ jobs' = RebalancedJobs(jobs, gpu_order, job_order)
  /\ jobs' # jobs
  /\ UNCHANGED <<deployment, gpus, usage_history, worker, runner, trip>>
  /\ UNCHANGED <<svcVars, demoVars, spotVars, fleet, max_jobs, backlog, nvmlVars, call>>
  /\ cancel_error' = NoJob

\* --------------------------------------------------- service: handlers
IdleRequest ==
  [pc |-> "idle", op |-> "none", job |-> NoJob, cands |-> <<>>, was |-> ABSENT,
   current |-> [status |-> AVAILABLE, memory_allocated |-> 0, current_job_id |-> NoJob]]

Free(row, g) == GpuTotal(g) - row.memory_allocated

\* GPUService.list_available, then the sort of allocate_for_job: the GPUs
\* of the organization that are available with enough free memory, by
\* free memory ascending; equal ones in the order the store gave them.
AvailableSorted(org, memory_required) ==
  LET cands == {g \in GpuIds : /\ GpuOrg(g) = org
                               /\ gpu_resources[g].status = AVAILABLE
                               /\ Free(gpu_resources[g], g) >= memory_required}
  IN {q \in Orderings(cands) :
        \A a, b \in 1..Cardinality(cands) :
          a < b => Free(gpu_resources[q[a]], q[a]) <= Free(gpu_resources[q[b]], q[b])}

\* GPUService.allocate_for_job: the row written by self.update, computed
\* from the row read under the lock.
ServiceAllocated(current, job_id, memory_required) ==
  [status |-> IN_USE,
   memory_allocated |-> current.memory_allocated + memory_required,
   current_job_id |-> job_id]

\* GPUService.release_gpu: the row written by self.update.
ServiceReleased(current, memory_to_free) ==
  [status |-> AVAILABLE,
   memory_allocated |-> Max(0, current.memory_allocated - memory_to_free),
   current_job_id |-> NoJob]

\* POST /job/{org}: a JobService (and so a GPUService with its own _locks
\* dictionary) is built for the request; create_job stores the job QUEUED
\* and allocate_for_job lists and sorts the candidates.
SvcCreateJob(r, j, spec) ==
  /\ deployment = "service"
  /\ req[r].pc = "idle"
  /\ svc_jobs[j].status = ABSENT
  /\ svc_jobs' = [svc_jobs EXCEPT ![j] = [status |-> QUEUED, gpu_id |-> NoGpu,
                                           memory_required |-> spec.memory_required]]
  /\ \E q \in AvailableSorted(JobOrg(j), spec.memory_required) :
       req' = [req EXCEPT ![r] =
                 IF q = <<>> THEN IdleRequest
                 ELSE [IdleRequest EXCEPT !.pc = "get", !.op = "create",
                                          !.job = j, !.cands = q]]
  /\ UNCHANGED <<deployment, gpu_resources, trip>>
  /\ UNCHANGED <<coreVars, demoVars, spotVars, fleet, max_jobs, backlog, nvmlVars, call>>
  /\ cancel_error' = NoJob

\* allocate_for_job, inside `async with self._locks[gpu_id]`: the lock is
\* this request's own, so it is always free; self.get reads the row and
\* the double check decides between this GPU and the next candidate.
SvcGet(r) ==
  LET g == Head(req[r].cands)
      current == gpu_resources[g]
      fits == /\ current.status = AVAILABLE
              /\ Free(current, g) >= svc_jobs[req[r].job].memory_required
      rest == Tail(req[r].cands)
  IN /\ deployment = "service"
     /\ req[r].pc = "get"
     /\ req' = [req EXCEPT ![r] =
                  IF fits THEN [@ EXCEPT !.pc = "update", !.current = current]
                  ELSE IF rest = <<>> THEN IdleRequest
                  ELSE [@ EXCEPT !.cands = rest]]
     /\ UNCHANGED <<deployment, gpu_resources, svc_jobs, trip>>
     /\ UNCHANGED <<coreVars, demoVars, spotVars, fleet, max_jobs, backlog, nvmlVars, call>>
     /\ cancel_error' = NoJob

\* allocate_for_job: self.update writes the GPU row; raise_for_status may
\* raise, which ends the request with nothing written.
SvcUpdateGpu(r, update) ==
  LET g == Head(req[r].cands)
      j == req[r].job
      row == ServiceAllocated(req[r].current, j, svc_jobs[j].memory_required)
  IN /\ deployment = "service"
     /\ req[r].pc = "update"
     /\ IF update = "ok"
        THEN /\ gpu_resources' = [gpu_resources EXCEPT ![g] = row]
             /\ req' = [req EXCEPT ![r].pc = "patch"]
             /\ trip' = [trip EXCEPT ![g] =
                           IF gpu_resources[g] = req[r].current
                           THEN [phase |-> "allocated", job |-> j,
                                 pre |-> gpu_resources[g], post |-> row, after |-> row]
                           ELSE NoTrip(row)]
        ELSE /\ req' = [req EXCEPT ![r] = IdleRequest]
             /\ UNCHANGED <<gpu_resources, trip>>
     /\ UNCHANGED <<deployment, svc_jobs>>
     /\ UNCHANGED <<coreVars, demoVars, spotVars, fleet, max_jobs, backlog, nvmlVars, call>>
     /\ cancel_error' = NoJob

\* allocate_for_job: the PATCH of the job (RUNNING, gpu_id).  Its response
\* is not checked, and an exception leaves the GPU row as written.
SvcPatchJob(r, patch) ==
  LET g == Head(req[r].cands)
      j == req[r].job
  IN /\ deployment = "service"
     /\ req[r].pc = "patch"
     /\ svc_jobs' = IF patch = "ok"
                    THEN [svc_jobs EXCEPT ![j].status = RUNNING, ![j].gpu_id = g]
                    ELSE svc_jobs
     /\ req' = [req EXCEPT ![r] = IdleRequest]
     /\ UNCHANGED <<deployment, gpu_resources, trip>>
     /\ UNCHANGED <<coreVars, demoVars, spotVars, fleet, max_jobs, backlog, nvmlVars, call>>
     /\ cancel_error' = NoJob

\* JobService.complete_job / fail_job, first await: self.get(job_id).
\* The status of the job is not looked at.
SvcFinishRead(r, j, op) ==
  /\ deployment = "service"
  /\ req[r].pc = "idle"
  /\ svc_jobs[j].status # ABSENT
  /\ req' = [req EXCEPT ![r] =
               [IdleRequest EXCEPT !.pc = IF svc_jobs[j].gpu_id # NoGpu THEN "release"
                                          ELSE "finish",
                                   !.op = op, !.job = j,
                                   !.cands = IF svc_jobs[j].gpu_id # NoGpu
                                             THEN <<svc_jobs[j].gpu_id>> ELSE <<>>]]
  /\ UNCHANGED <<deployment, gpu_resources, svc_jobs, trip>>
  /\ UNCHANGED <<coreVars, demoVars, spotVars, fleet, max_jobs, backlog, nvmlVars, call>>
  /\ cancel_error' = NoJob

\* GPUService.release_gpu: ValueError unless the row's current_job_id is the
\* job; otherwise the row is written, or the update raises.
SvcRelease(r, update) ==
  LET g == Head(req[r].cands)
      j == req[r].job
      current == gpu_resources[g]
      row == ServiceReleased(current, svc_jobs[j].memory_required)
  IN /\ deployment = "service"
     /\ req[r].pc = "release"
     /\ IF current.current_job_id = j /\ update = "ok"
        THEN /\ gpu_resources' = [gpu_resources EXCEPT ![g] = row]
             /\ req' = [req EXCEPT ![r].pc = "finish"]
             /\ trip' = [trip EXCEPT ![g] =
                           IF @.phase = "allocated" /\ @.job = j /\ @.post = current
                           THEN [@ EXCEPT !.phase = "released", !.after = row]
                           ELSE NoTrip(row)]
        ELSE /\ req' = [req EXCEPT ![r] = IdleRequest]
             /\ UNCHANGED <<gpu_resources, trip>>
     /\ UNCHANGED <<deployment, svc_jobs>>
     /\ UNCHANGED <<coreVars, demoVars, spotVars, fleet, max_jobs, backlog, nvmlVars, call>>
     /\ cancel_error' = NoJob

\* complete_job / fail_job, last await: self.update(job_id, {status, ...});
\* gpu_id is not among the fields written.
SvcFinish(r, update) ==
  LET j == req[r].job
  IN /\ deployment = "service"
     /\ req[r].pc = "finish"
     /\ svc_jobs' = IF update = "ok"
                    THEN [svc_jobs EXCEPT ![j].status =
                            IF req[r].op = "complete" THEN COMPLETED ELSE FAILED]
                    ELSE svc_jobs
     /\ req' = [req EXCEPT ![r] = IdleRequest]
     /\ UNCHANGED <<deployment, gpu_resources, trip>>
     /\ UNCHANGED <<coreVars, demoVars, spotVars, fleet, max_jobs, backlog, nvmlVars, call>>
     /\ cancel_error' = NoJob

\* POST /jobs/{job_id}/cancel (api/jobs.py), first await: get_job and the
\* status check.  The handler keeps the job it read.
ApiCancelRead(r, j) ==
  /\ deployment = "service"
  /\ req[r].pc = "idle"
  /\ Cancellable(svc_jobs[j].status)
  /\ req' = [req EXCEPT ![r] =
               [IdleRequest EXCEPT !.pc = "cancel_patch", !.op = "cancel", !.job = j,
                                   !.was = svc_jobs[j].status,
                                   !.cands = IF svc_jobs[j].gpu_id # NoGpu
                                             THEN <<svc_jobs[j].gpu_id>> ELSE <<>>]]
  /\ UNCHANGED <<deployment, gpu_resources, svc_jobs, trip>>
  /\ UNCHANGED <<coreVars, demoVars, spotVars, fleet, max_jobs, backlog, nvmlVars, call>>
  /\ cancel_error' = NoJob

\* POST /jobs/{job_id}/cancel on a job that is neither QUEUED nor RUNNING:
\* HTTP 400 after the read, nothing is written.  (One step, looked at when
\* no other request is in flight.)
ApiCancelRefused(r, j) ==
  /\ deployment = "service"
  /\ \A q \in Requests : req[q].pc = "idle"
  /\ svc_jobs[j].status # ABSENT
  /\ ~Cancellable(svc_jobs[j].status)
  /\ cancel_error' = j
  /\ UNCHANGED <<deployment, trip, fleet, max_jobs, backlog, nvmlVars, call, coreVars, svcVars, demoVars, spotVars>>

\* POST /jobs/{job_id}/cancel, second await: the PATCH {status: cancelled,
\* completed_at}; the handler then returns.  No GPU row is read or written.
ApiCancelPatch(r, patch) ==
  LET j == req[r].job
  IN /\ deployment = "service"
     /\ req[r].pc = "cancel_patch"
     /\ svc_jobs' = IF patch = "ok" THEN [svc_jobs EXCEPT ![j].status = CANCELLED]
                    ELSE svc_jobs
     /\ req' = [req EXCEPT ![r] = IdleRequest]
     /\ UNCHANGED <<deployment, gpu_resources, trip>>
     /\ UNCHANGED <<coreVars, demoVars, spotVars, fleet, max_jobs, backlog, nvmlVars, call>>
     /\ cancel_error' = NoJob

\* ------------------------------------------------ demo: lifecycle script
\* JobLifecycleDemo over Repository: one script, its awaits in sequence.
ALLOCATED == "allocated"
WAITING_FOR_GPU == "waiting_for_gpu"

\* submit_test_jobs: the min_memory of the test configurations (8 for the
\* text job, 16 for the image job), in the unit of the fleet's memory.
DemoMinMemory(j) == IF j = 1 THEN 8000 ELSE 16000

IdleDemo == [pc |-> "submit", todo |-> <<>>, cands |-> <<>>]

\* Repository.get_available_gpus: the organization's available GPUs with
\* at least min_memory, ORDER BY memory_gb DESC; equal ones in any order.
AvailableGpus(org, min_memory) ==
  LET cands == {g \in GpuIds : /\ GpuOrg(g) = org
                               /\ demo_gpus[g].status = AVAILABLE
                               /\ GpuTotal(g) >= min_memory}
  IN {q \in Orderings(cands) :
        \A a, b \in 1..Cardinality(cands) : a < b => GpuTotal(q[a]) >= GpuTotal(q[b])}

\* The script moves on to the next job of allocate_gpus, then to monitor_jobs.
DemoNext(d) ==
  IF Tail(d.todo) = <<>> THEN [pc |-> "monitor", todo |-> <<>>, cands |-> <<>>]
  ELSE [pc |-> "find", todo |-> Tail(d.todo), cands |-> <<>>]

\* submit_test_jobs: create_gpu_job for each test configuration (status
\* pending); a job whose insert raises is left out.
DemoSubmit(created) ==
  /\ deployment = "demo"
  /\ demo.pc = "submit"
  /\ gpu_jobs' = [j \in JobIds |->
                    IF j \in created
                    THEN [status |-> PENDING, gpu_id |-> NoGpu, min_memory |-> DemoMinMemory(j)]
                    ELSE gpu_jobs[j]]
  /\ \E order \in Orderings(created) :
       /\ \A a, b \in 1..Len(order) : a < b => order[a] < order[b]
       /\ demo' = IF order = <<>> THEN [pc |-> "monitor", todo |-> <<>>, cands |-> <<>>]
                  ELSE [pc |-> "find", todo |-> order, cands |-> <<>>]
  /\ UNCHANGED <<deployment, trip, fleet, max_jobs, backlog, nvmlVars, call, demo_gpus, coreVars, svcVars, spotVars>>
  /\ cancel_error' = NoJob

\* allocate_gpus, first await: get_available_gpus for the job at hand.
DemoFind ==
  LET j == Head(demo.todo)
  IN /\ deployment = "demo"
     /\ demo.pc = "find"
     /\ \E q \in AvailableGpus(JobOrg(j), gpu_jobs[j].min_memory) :
          demo' = [demo EXCEPT !.pc = IF q = <<>> THEN "wait" ELSE "allocate", !.cands = q]
     /\ UNCHANGED <<deployment, trip, fleet, max_jobs, backlog, nvmlVars, call, demo_gpus, gpu_jobs, coreVars, svcVars, spotVars>>
     /\ cancel_error' = NoJob

\* allocate_gpus with no GPU listed: the job is marked waiting_for_gpu.
DemoWait ==
  LET j == Head(demo.todo)
  IN /\ deployment = "demo"
     /\ demo.pc = "wait"
     /\ gpu_jobs' = [gpu_jobs EXCEPT ![j].status = WAITING_FOR_GPU]
     /\ demo' = DemoNext(demo)
     /\ UNCHANGED <<deployment, trip, fleet, max_jobs, backlog, nvmlVars, call, demo_gpus, coreVars, svcVars, spotVars>>
     /\ cancel_error' = NoJob

\* allocate_gpus, Repository.allocate_gpu on the first GPU listed: it is
\* marked allocated to the job if still available (409 otherwise, which
\* the loop prints before it goes on to the next job).
DemoAllocateGpu ==
  LET j == Head(demo.todo)
      g == Head(demo.cands)
  IN /\ deployment = "demo"
     /\ demo.pc = "allocate"
     /\ IF demo_gpus[g].status = AVAILABLE
        THEN /\ demo_gpus' = [demo_gpus EXCEPT ![g] = [status |-> ALLOCATED, job_id |-> j]]
             /\ demo' = [demo EXCEPT !.pc = "update"]
        ELSE /\ demo' = DemoNext(demo)
             /\ UNCHANGED demo_gpus
     /\ UNCHANGED <<deployment, trip, fleet, max_jobs, backlog, nvmlVars, call, gpu_jobs, coreVars, svcVars, spotVars>>
     /\ cancel_error' = NoJob

\* allocate_gpus, last await: update_gpu_job(running, gpu_id); if it
\* raises the loop prints the error and goes on.
DemoUpdateJob(update) ==
  LET j == Head(demo.todo)
      g == Head(demo.cands)
  IN /\ deployment = "demo"
     /\ demo.pc = "update"
     /\ gpu_jobs' = IF update = "ok"
                    THEN [gpu_jobs EXCEPT ![j].status = RUNNING, ![j].gpu_id = g]
                    ELSE gpu_jobs
     /\ demo' = DemoNext(demo)
     /\ UNCHANGED <<deployment, trip, fleet, max_jobs, backlog, nvmlVars, call, demo_gpus, coreVars, svcVars, spotVars>>
     /\ cancel_error' = NoJob

\* monitor_jobs polls until every job is completed or failed; the script
\* leaves it only when a poll raises, and run_demo then calls cleanup,
\* which lists the running jobs.
DemoMonitorRaises ==
  /\ deployment = "demo"
  /\ demo.pc = "monitor"
  /\ \E order \in Orderings({j \in JobIds : gpu_jobs[j].status = RUNNING}) :
       demo' = [pc |-> IF order = <<>> THEN "done" ELSE "cleanup", todo |-> order,
                cands |-> <<>>]
  /\ UNCHANGED <<deployment, trip, fleet, max_jobs, backlog, nvmlVars, call, demo_gpus, gpu_jobs, coreVars, svcVars, spotVars>>
  /\ cancel_error' = NoJob

\* cleanup: Repository.release_gpu(job.gpu_id, org) for each running job:
\* the GPU row is made available with no job, whatever it held.
DemoCleanup ==
  LET j == Head(demo.todo)
      g == gpu_jobs[j].gpu_id
  IN /\ deployment = "demo"
     /\ demo.pc = "cleanup"
     /\ demo_gpus' = [demo_gpus EXCEPT ![g] = [status |-> AVAILABLE, job_id |-> NoJob]]
     /\ demo' = IF Tail(demo.todo) = <<>> THEN [pc |-> "done", todo |-> <<>>, cands |-> <<>>]
                ELSE [demo EXCEPT !.todo = Tail(@)]
     /\ UNCHANGED <<deployment, trip, fleet, max_jobs, backlog, nvmlVars, call, gpu_jobs, coreVars, svcVars, spotVars>>
     /\ cancel_error' = NoJob

\* ------------------------------------------------- spot: SpotManager
\* The configured cap on spot instances (config key max_spot_instances,
\* 5 when the key is unset).
max_spot_instances == 2

PROVISIONING == "provisioning"
OFFLINE == "offline"
TERMINATING == "terminating"

Provisions == 1..NumProvisions

\* The context of one provision_gpu call, and, where the allocator makes the
\* call, of the sweep it is made for: the jobs the sweep has yet to try
\* (the first is the one being tried) and, as history, how many times the
\* sweep has asked for a spot GPU.
IdleProvision == [pc |-> "idle", row |-> 0, attempt |-> 0, todo |-> <<>>, spot_calls |-> 0]

\* The stacks that run a SpotManager: on its own, or behind the fallback
\* of a GPUAllocator built with one.
SpotStacks == {"spot", "fallback"}

\* _try_allocate_and_start is over for the job at the head of the sweep:
\* the loop of _process_queue goes on to the next job, or the sweep ends.
NextJob(ctx) ==
  IF Len(ctx.todo) <= 1 THEN IdleProvision
  ELSE [ctx EXCEPT !.pc = "acquire", !.todo = Tail(@), !.row = 0, !.attempt = 0]

\* provision_gpu returns (row 0: None).  Called on its own, the call is
\* over.  Called by allocate_for_job, None ends the allocation with the
\* job left as it is, and a GPU is handed to _allocate_gpu.
Returned(ctx, row) ==
  IF deployment = "spot" THEN IdleProvision
  ELSE IF row = 0 THEN NextJob(ctx)
  ELSE [ctx EXCEPT !.pc = "bind", !.row = row, !.attempt = 0]

\* _wait_for_instance: @retry(stop=stop_after_attempt(5)).
stop_after_attempt == 5

\* A spot GPU row as provision_gpu adds it.  terminate_called is history:
\* whether a provider has been told to terminate the instance.
DELETED == "deleted"
SpotRow ==
  [status |-> PROVISIONING, current_job_count |-> 0, termination_time |-> "none",
   terminate_called |-> FALSE]

\* The spot rows in the table (a deleted row is no longer one).
SpotCount == Cardinality({i \in 1..Len(spot_gpus) : spot_gpus[i].status # DELETED})

\* provision_gpu up to its first await: the count of spot rows is compared
\* with the cap; at the cap the call returns None with no provider called.
ProvisionCheck(p) ==
  /\ deployment = "spot"
  /\ provision[p].pc = "idle"
  /\ SpotCount < max_spot_instances
  /\ provision' = [provision EXCEPT ![p].pc = "offers"]
  /\ UNCHANGED <<deployment, trip, fleet, max_jobs, backlog, nvmlVars, call, spot_gpus, coreVars, svcVars, demoVars>>
  /\ cancel_error' = NoJob

\* The providers, in the order of the providers dict.
ProviderOrder == <<"sfcompute", "vast", "aws">>
ProviderNames == {ProviderOrder[i] : i \in DOMAIN ProviderOrder}

\* Prices are in cents per hour.  spot_price_threshold is 2.0 when unset.
price_threshold == 200
NoPrice == -1
NoOffer == [provider |-> "none", price |-> 0]

\* What one get_spot_offers call may do: raise, or return a list of offers.
OfferPrices == {90, 100, 120}
Replies ==
  {[ok |-> FALSE, offers |-> <<>>]}
    \cup {[ok |-> TRUE, offers |-> q] :
            q \in {<<>>} \cup {<<x>> : x \in OfferPrices} \cup {<<120, 90>>}}
Responses == [ProviderNames -> Replies]

\* What a caller may pass as max_price: None, or a price.
MaxPrices == {NoPrice, 0, 100, 120}

\* provision_gpu: max_price or self.price_threshold.
EffectiveMaxPrice(max_price) ==
  IF max_price = NoPrice \/ max_price = 0 THEN price_threshold ELSE max_price

\* _find_best_spot_offer, the loop: the offers of each provider that are
\* priced within max_price, in the order met; a provider whose call raises
\* is logged and skipped.
AcceptableOffersAbortedByError(responses, max_price) ==
  IF \E n \in ProviderNames : ~responses[n].ok THEN <<>>
  ELSE LET From(n) ==
             LET kept == SelectSeq(responses[n].offers, LAMBDA x : x <= max_price)
             IN [i \in 1..Len(kept) |-> [provider |-> n, price |-> kept[i]]]
       IN From(ProviderOrder[1]) \o From(ProviderOrder[2]) \o From(ProviderOrder[3])

AcceptableOffers(responses, max_price) ==
  LET From(n) ==
        IF responses[n].ok
        THEN LET kept == SelectSeq(responses[n].offers, LAMBDA x : x <= max_price)
             IN [i \in 1..Len(kept) |-> [provider |-> n, price |-> kept[i]]]
        ELSE <<>>
  IN From(ProviderOrder[1]) \o From(ProviderOrder[2]) \o From(ProviderOrder[3])

\* _find_best_spot_offer: None when no offer was kept, else min(offers,
\* key=price), the first of the cheapest.
BestSpotOffer(responses, max_price) ==
  LET offers == AcceptableOffers(responses, max_price)
  IN IF offers = <<>> THEN NoOffer
     ELSE offers[CHOOSE i \in 1..Len(offers) :
                   /\ \A k \in 1..Len(offers) : offers[i].price <= offers[k].price
                   /\ \A k \in 1..(i - 1) : offers[k].price > offers[i].price]

\* _find_best_spot_offer returns: the cheapest offer within the price
\* limit and provision_gpu goes on, or None and provision_gpu returns None.
BestOffers ==
  {BestSpotOffer(r, EffectiveMaxPrice(m)) : r \in Responses, m \in MaxPrices}

\* The marketplace the fallback is run against: one provider offers an
\* instance at 0.90, another at 1.20, the third has none.
MarketOffers ==
  [n \in ProviderNames |->
     [ok |-> TRUE, offers |-> CASE n = "sfcompute" -> <<90>>
                               [] n = "vast" -> <<120>>
                               [] OTHER -> <<>>]]

\* _load_model_requirements: cost_per_hour of the model, in cents.
ModelCostPerHour(model_name) ==
  CASE model_name = "phi-2" -> 60
    [] model_name = "deepseek-coder" -> 90
    [] model_name = "stable-diffusion-xl" -> 45
    [] OTHER -> 30

\* Settings.SPOT_INSTANCE_MAX_PRICE, in cents.
SPOT_INSTANCE_MAX_PRICE == 100

\* allocate_for_job, the fallback: the spot GPU is requested at no more
\* than min(cost_per_hour of the model, SPOT_INSTANCE_MAX_PRICE).
SpotMaxPrice(model_name) ==
  IF ModelCostPerHour(model_name) <= SPOT_INSTANCE_MAX_PRICE
  THEN ModelCostPerHour(model_name) ELSE SPOT_INSTANCE_MAX_PRICE

\* What _find_best_spot_offer returns to the request made for job j.
RequestedOffer(j) ==
  BestSpotOffer(MarketOffers, EffectiveMaxPrice(SpotMaxPrice(jobs[j].model_name)))

ProvisionOffer(p, best_offer) ==
  /\ deployment \in SpotStacks
  /\ provision[p].pc = "offers"
  /\ deployment = "fallback" => best_offer = RequestedOffer(Head(provision[p].todo))
  /\ provision' = [provision EXCEPT ![p] =
                     IF best_offer # NoOffer
                     THEN [@ EXCEPT !.pc = "instance"]
                     ELSE Returned(@, 0)]
  /\ UNCHANGED <<deployment, trip, fleet, max_jobs, backlog, nvmlVars, call, spot_gpus, coreVars, svcVars, demoVars>>
  /\ cancel_error' = NoJob

\* provider.provision_instance returns: the GPU row is added PROVISIONING
\* and committed; if the provider raises, provision_gpu returns None.
ProvisionInstance(p, outcome) ==
  /\ deployment \in SpotStacks
  /\ provision[p].pc = "instance"
  /\ Len(spot_gpus) < MaxSpotRows
  /\ IF outcome = "ok"
     THEN /\ spot_gpus' = Append(spot_gpus, SpotRow)
          /\ provision' = [provision EXCEPT ![p] =
                             [@ EXCEPT !.pc = "wait", !.row = Len(spot_gpus) + 1,
                                       !.attempt = 1]]
     ELSE /\ provision' = [provision EXCEPT ![p] = Returned(@, 0)]
          /\ UNCHANGED spot_gpus
  /\ UNCHANGED <<deployment, trip, fleet, max_jobs, backlog, nvmlVars, call, coreVars, svcVars, demoVars>>
  /\ cancel_error' = NoJob

\* _wait_for_instance, one poll of check_instance_status under
\* @retry(stop_after_attempt(5)): ready makes the row AVAILABLE and the wait
\* returns; failed makes it OFFLINE and raises; a poll that raises changes
\* nothing; either raise ends the attempt, and the last attempt's raise ends
\* provision_gpu (None).  Any other state sleeps and polls again within the
\* same attempt, which changes nothing.
ProvisionWait(p, state) ==
  LET i == provision[p].row
      last == provision[p].attempt >= stop_after_attempt
  IN /\ deployment \in SpotStacks
     /\ provision[p].pc = "wait"
     /\ spot_gpus' = [spot_gpus EXCEPT ![i].status = CASE state = "ready" -> AVAILABLE
                                                       [] state = "failed" -> OFFLINE
                                                       [] OTHER -> @]
     /\ provision' = [provision EXCEPT ![p] =
                        IF state = "ready" THEN Returned(@, i)
                        ELSE IF last THEN Returned(@, 0)
                        ELSE [@ EXCEPT !.attempt = @ + 1]]
     /\ UNCHANGED <<deployment, trip, fleet, max_jobs, backlog, nvmlVars, call, coreVars, svcVars, demoVars>>
     /\ cancel_error' = NoJob

\* _find_available_gpu on a spot row: AVAILABLE and not scheduled for
\* termination (termination_time unset; once set to utcnow() it is in the
\* past of every later query).
SpotEligibleByStatus(row) == row.status = AVAILABLE
SpotEligible(row) == row.status = AVAILABLE /\ row.termination_time = "none"

\* allocate_for_job binds a job to spot row i (_allocate_gpu): a row that
\* _find_available_gpu returns, or the row provision_gpu has just returned
\* (AVAILABLE, no termination_time).
SpotAllocate(i) ==
  /\ deployment = "spot"
  /\ i \in 1..Len(spot_gpus)
  /\ SpotEligible(spot_gpus[i])
  /\ spot_gpus[i].current_job_count + 1 <= MAX_JOBS_PER_GPU
  /\ spot_gpus' = [spot_gpus EXCEPT ![i].status = IN_USE,
                                    ![i].current_job_count = @ + 1]
  /\ UNCHANGED <<deployment, trip, fleet, max_jobs, backlog, nvmlVars, call, provision, coreVars, svcVars, demoVars>>
  /\ cancel_error' = NoJob

\* release_gpu of a job bound to spot row i: the count goes down and a row
\* left with no job is AVAILABLE; a spot row past its termination_time and
\* with no job is then handed to _terminate_spot_gpu, which deletes it
\* unless terminating the instance raises.
SpotRelease(i, terminate) ==
  LET count == Max(0, spot_gpus[i].current_job_count - 1)
      cleanup == spot_gpus[i].termination_time = "past" /\ count = 0
  IN /\ deployment = "spot"
     /\ i \in 1..Len(spot_gpus)
     /\ spot_gpus[i].current_job_count > 0
     /\ spot_gpus' = [spot_gpus EXCEPT
                        ![i].current_job_count = count,
                        ![i].status = IF cleanup /\ terminate = "ok" THEN DELETED
                                      ELSE IF count = 0 THEN AVAILABLE ELSE @,
                        ![i].terminate_called = @ \/ (cleanup /\ terminate = "ok")]
     /\ UNCHANGED <<deployment, trip, fleet, max_jobs, backlog, nvmlVars, call, provision, coreVars, svcVars, demoVars>>
     /\ cancel_error' = NoJob

\* SpotManager.terminate_gpu on spot row i: the provider terminates the
\* instance and the row becomes TERMINATING with termination_time now; if
\* the provider raises, the error is logged and nothing is written.
TerminateGpu(i, outcome) ==
  /\ deployment = "spot"
  /\ i \in 1..Len(spot_gpus)
  /\ spot_gpus[i].status # DELETED
  /\ spot_gpus' = IF outcome = "ok"
                  THEN [spot_gpus EXCEPT ![i].status = TERMINATING,
                                         ![i].termination_time = "past",
                                         ![i].terminate_called = TRUE]
                  ELSE spot_gpus
  /\ UNCHANGED <<deployment, trip, fleet, max_jobs, backlog, nvmlVars, call, provision, coreVars, svcVars, demoVars>>
  /\ cancel_error' = NoJob

\* monitor_spot_instances on one AVAILABLE or busy spot row: a termination
\* notice makes it TERMINATING with termination_time now
\* (_handle_termination_notice); a failed instance makes it OFFLINE
\* (_handle_instance_failure; no code adds to current_jobs, so no
\* replacement is provisioned).
MonitorSpot(i, state) ==
  /\ deployment = "spot"
  /\ i \in 1..Len(spot_gpus)
  /\ spot_gpus[i].status \in {AVAILABLE, IN_USE}
  /\ spot_gpus' = IF state = "failed" THEN [spot_gpus EXCEPT ![i].status = OFFLINE]
                  ELSE [spot_gpus EXCEPT ![i].status = TERMINATING,
                                         ![i].termination_time = "past"]
  /\ UNCHANGED <<deployment, trip, fleet, max_jobs, backlog, nvmlVars, call, provision, coreVars, svcVars, demoVars>>
  /\ cancel_error' = NoJob

\* ------------------------------- fallback: GPUAllocator with a SpotManager
\* What the queued jobs of the fallback stack ask for.
FallbackSpecs ==
  { [model_name |-> "custom", memory_required |-> 8000],
    [model_name |-> "deepseek-coder", memory_required |-> 28800] }

\* allocate_for_job holds _allocation_lock from its first line to its
\* return, the request for a spot GPU included.
LockHeld == \E p \in Provisions : provision[p].pc \in {"find", "offers", "instance", "wait", "bind"}

\* The id a job is given for the spot row at index i.
SpotId(i) == NumGpus + i

\* _process_queue lists the QUEUED jobs, in the order the store gives them,
\* and starts on the first.
SweepStart(p) ==
  /\ deployment = "fallback"
  /\ provision[p].pc = "idle"
  /\ \E order \in Orderings({j \in JobIds : jobs[j].status = QUEUED}) :
       /\ order # <<>>
       /\ provision' = [provision EXCEPT ![p] =
                          [IdleProvision EXCEPT !.pc = "acquire", !.todo = order]]
  /\ UNCHANGED <<deployment, trip, fleet, max_jobs, backlog, nvmlVars, call, spot_gpus, coreVars, svcVars, demoVars>>
  /\ cancel_error' = NoJob

\* allocate_for_job: async with self._allocation_lock.
AllocateAcquire(p) ==
  /\ deployment = "fallback"
  /\ provision[p].pc = "acquire"
  /\ ~LockHeld
  /\ provision' = [provision EXCEPT ![p].pc = "find"]
  /\ UNCHANGED <<deployment, trip, fleet, max_jobs, backlog, nvmlVars, call, spot_gpus, coreVars, svcVars, demoVars>>
  /\ cancel_error' = NoJob

\* allocate_for_job under the lock: _find_available_gpu returns a GPU, which
\* _allocate_gpu binds, and the call returns it; or it returns none and the
\* spot GPU is requested: provision_gpu returns None at the cap on spot
\* instances, and otherwise asks the providers for offers.
AllocateFind(p) ==
  LET j == Head(provision[p].todo)
      found == BestFit(JobOrg(j), RequiredMinMemory(jobs[j].model_name),
                       ModelCapability(jobs[j].model_name))
  IN /\ deployment = "fallback"
     /\ provision[p].pc = "find"
     /\ IF found # {}
        THEN \E g \in found :
               /\ gpus' = [gpus EXCEPT ![g] = AllocatedGpu(@, jobs[j].memory_required)]
               /\ usage_history' = StartedTracking(usage_history, g, j)
               /\ provision' = [provision EXCEPT ![p] = [@ EXCEPT !.pc = "update", !.row = g]]
        ELSE /\ provision' = [provision EXCEPT ![p] =
                                IF SpotCount < max_spot_instances
                                THEN [@ EXCEPT !.pc = "offers", !.spot_calls = @ + 1]
                                ELSE NextJob([@ EXCEPT !.spot_calls = @ + 1])]
             /\ UNCHANGED <<gpus, usage_history>>
     /\ UNCHANGED <<deployment, trip, fleet, max_jobs, backlog, nvmlVars, call, spot_gpus, jobs, worker, runner,
                    svcVars, demoVars>>
     /\ cancel_error' = NoJob

\* allocate_for_job after provision_gpu has returned the new GPU:
\* _allocate_gpu binds the job to it and the call returns it.
AllocateSpot(p) ==
  LET i == provision[p].row
  IN /\ deployment = "fallback"
     /\ provision[p].pc = "bind"
     /\ spot_gpus' = [spot_gpus EXCEPT ![i].status = IN_USE, ![i].current_job_count = @ + 1]
     /\ provision' = [provision EXCEPT ![p] = [@ EXCEPT !.pc = "update", !.row = SpotId(i)]]
     /\ UNCHANGED <<deployment, trip, fleet, max_jobs, backlog, nvmlVars, call, coreVars, svcVars, demoVars>>
     /\ cancel_error' = NoJob

\* _try_allocate_and_start after the allocation: update_job writes RUNNING
\* and the GPU; if it raises, the except branch writes FAILED.
AllocateUpdate(p, update) ==
  LET j == Head(provision[p].todo)
  IN /\ deployment = "fallback"
     /\ provision[p].pc = "update"
     /\ jobs' = [jobs EXCEPT ![j] = IF update = "ok" THEN UpdatedJob(@, RUNNING, provision[p].row)
                                    ELSE UpdatedJob(@, FAILED, NoGpu)]
     /\ provision' = [provision EXCEPT ![p] = NextJob(@)]
     /\ UNCHANGED <<deployment, trip, fleet, max_jobs, backlog, nvmlVars, call, spot_gpus, gpus, usage_history,
                    worker, runner, svcVars, demoVars>>
     /\ cancel_error' = NoJob

\* ------------------------------------------- a long queue
\* The rows of one organization in the order the store keeps them: fits
\* says whether the job fits a GPU of the organization that is free, status
\* is the job's status.
NoBacklog == [fits |-> <<>>, status |-> <<>>]
Backlogs ==
  {[fits |-> f, status |-> [i \in 1..Len(f) |-> QUEUED]] :
     f \in UNION {[1..n -> BOOLEAN] : n \in 1..MaxBacklog}}

\* ---------------------------------- utils/gpu_metrics: NVML singleton
Threads == 1..NumThreads

\* The module as imported: NVML_AVAILABLE says whether pynvml imported,
\* _nvml_initialized is False and _nvml_lock is free (no holder).  The call
\* counts are history: the nvmlInit calls made, and those that returned,
\* since the last nvmlShutdown that returned, and the nvmlShutdown calls
\* since the last nvmlInit that returned.
ImportedModule ==
  [available |-> TRUE, initialized |-> FALSE, lock |-> 0,
   init_calls |-> 0, init_ok |-> 0, shutdown_calls |-> 0, shutdown_ok |-> 0]

\* A thread outside both functions; done, result and raised describe the
\* call it made last, calls counts the calls it has made.
IdleThread ==
  [pc |-> "idle", fn |-> "none", done |-> FALSE, result |-> FALSE, raised |-> FALSE,
   calls |-> 0]

\* `with _nvml_lock`: a threading.Lock is acquired only while no thread
\* holds it.
LockIgnored == TRUE
LockFree == nvml.lock = 0

\* A thread calls initialize_nvml or shutdown_nvml: without pynvml the
\* function warns and returns False at once; otherwise it goes for the lock.
NvmlCall(t, fn) ==
  /\ deployment = "metrics"
  /\ thread[t].pc = "idle"
  /\ thread[t].calls < MaxCalls
  /\ thread' = [thread EXCEPT ![t] =
                  IF nvml.available
                  THEN [@ EXCEPT !.pc = "acquire", !.fn = fn, !.done = FALSE,
                                 !.result = FALSE, !.raised = FALSE, !.calls = @ + 1]
                  ELSE [@ EXCEPT !.fn = fn, !.done = TRUE, !.result = FALSE,
                                 !.raised = FALSE, !.calls = @ + 1]]
  /\ UNCHANGED <<deployment, trip, fleet, max_jobs, backlog, call, cancel_error, nvml,
                 coreVars, svcVars, demoVars, spotVars>>

\* The thread enters the with block.
NvmlAcquire(t) ==
  /\ deployment = "metrics"
  /\ thread[t].pc = "acquire"
  /\ LockFree
  /\ nvml' = [nvml EXCEPT !.lock = t]
  /\ thread' = [thread EXCEPT ![t].pc = "locked"]
  /\ UNCHANGED <<deployment, trip, fleet, max_jobs, backlog, call, cancel_error,
                 coreVars, svcVars, demoVars, spotVars>>

\* Inside the block the flag is read.  initialize_nvml with the flag set,
\* or shutdown_nvml with it clear, returns True and leaves the block.
\* Otherwise pynvml.nvmlInit / nvmlShutdown is called: if it raises, the
\* error is logged, False is returned and the flag is left as it was.
NvmlLibraryCall(t, outcome) ==
  LET init == thread[t].fn = "initialize_nvml"
      needed == IF init THEN ~nvml.initialized ELSE nvml.initialized
  IN /\ deployment = "metrics"
     /\ thread[t].pc = "locked"
     /\ nvml' = IF ~needed THEN [nvml EXCEPT !.lock = 0]
                ELSE IF init
                THEN [nvml EXCEPT !.init_calls = @ + 1,
                                  !.init_ok = IF outcome = "ok" THEN @ + 1 ELSE @,
                                  !.shutdown_calls = IF outcome = "ok" THEN 0 ELSE @,
                                  !.shutdown_ok = IF outcome = "ok" THEN 0 ELSE @,
                                  !.lock = IF outcome = "ok" THEN @ ELSE 0]
                ELSE [nvml EXCEPT !.shutdown_calls = @ + 1,
                                  !.shutdown_ok = IF outcome = "ok" THEN @ + 1 ELSE @,
                                  !.init_calls = IF outcome = "ok" THEN 0 ELSE @,
                                  !.init_ok = IF outcome = "ok" THEN 0 ELSE @,
                                  !.lock = IF outcome = "ok" THEN @ ELSE 0]
     /\ thread' = [thread EXCEPT ![t] =
                     IF ~needed
                     THEN [@ EXCEPT !.pc = "idle", !.done = TRUE, !.result = TRUE]
                     ELSE IF outcome = "ok" THEN [@ EXCEPT !.pc = "set"]
                     ELSE [@ EXCEPT !.pc = "idle", !.done = TRUE, !.result = FALSE,
                                    !.raised = TRUE]]
     /\ UNCHANGED <<deployment, trip, fleet, max_jobs, backlog, call, cancel_error,
                    coreVars, svcVars, demoVars, spotVars>>

\* The library call has returned: the flag is assigned, True is returned
\* and the block is left.
NvmlSetFlag(t) ==
  /\ deployment = "metrics"
  /\ thread[t].pc = "set"
  /\ nvml' = [nvml EXCEPT !.initialized = (thread[t].fn = "initialize_nvml"), !.lock = 0]
  /\ thread' = [thread EXCEPT ![t] = [@ EXCEPT !.pc = "idle", !.done = TRUE, !.result = TRUE]]
  /\ UNCHANGED <<deployment, trip, fleet, max_jobs, backlog, call, cancel_error,
                 coreVars, svcVars, demoVars, spotVars>>

\* ------------------------------------------------------- specification
InitGpu(g) ==
  [status |-> AVAILABLE, available_memory |-> GpuTotal(g), current_job_count |-> 0]

InitResource(g) ==
  [status |-> AVAILABLE, memory_allocated |-> 0, current_job_id |-> NoJob]

\* No function is being looked at on its own.
NoCall == [fn |-> "none", arg |-> <<>>, out |-> <<>>, done |-> FALSE]

\* The tables and contexts as constructed, whatever the stack.
InitTables ==
  /\ fleet \in FleetsOf(deployment)
  /\ max_jobs \in JobLimits(deployment)
  /\ cancel_error = NoJob
  /\ demo_gpus = [g \in GpuIds |-> [status |-> AVAILABLE, job_id |-> NoJob]]
  /\ gpu_jobs = [j \in JobIds |-> [status |-> ABSENT, gpu_id |-> NoGpu, min_memory |-> 0]]
  /\ demo = IdleDemo
  /\ spot_gpus = <<>>
  /\ provision = [p \in Provisions |-> IdleProvision]
  /\ nvml \in {[ImportedModule EXCEPT !.available = a] :
                a \in IF deployment = "metrics" THEN BOOLEAN ELSE {TRUE}}
  /\ thread = [t \in Threads |-> IdleThread]
  /\ backlog \in IF deployment = "backlog" THEN Backlogs ELSE {NoBacklog}
  /\ gpus = [g \in GpuIds |-> InitGpu(g)]
  /\ IF deployment = "fallback"
     THEN jobs \in [JobIds -> {[status |-> QUEUED, gpu_id |-> NoGpu,
                                model_name |-> spec.model_name,
                                memory_required |-> spec.memory_required] :
                                 spec \in FallbackSpecs}]
     ELSE jobs = [j \in JobIds |-> [status |-> ABSENT, gpu_id |-> NoGpu,
                                     model_name |-> "custom", memory_required |-> 0]]
  /\ usage_history = [g \in GpuIds |-> NoSession]
  /\ worker = [w \in Workers |-> IdleWorker]
  /\ runner = [j \in JobIds |-> "idle"]
  /\ gpu_resources = [g \in GpuIds |-> InitResource(g)]
  /\ svc_jobs = [j \in JobIds |-> [status |-> ABSENT, gpu_id |-> NoGpu,
                                    memory_required |-> 0]]
  /\ req = [r \in Requests |-> IdleRequest]
  /\ trip = [g \in GpuIds |->
               IF deployment = "core" THEN NoTrip(InitGpu(g)) ELSE NoTrip(InitResource(g))]

Init ==
  /\ deployment \in {"core", "service", "demo", "spot", "fallback"}
  /\ call = NoCall
  /\ InitTables

Next ==
  \/ \E j \in JobIds, spec \in JobSpecs : CreateJob(j, spec)
  \/ \E w \in Workers : TryAllocate(w)
  \/ \E w \in Workers, update \in Outcomes, start \in Outcomes : TryUpdate(w, update, start)
  \/ \E j \in JobIds : CancelRead(j)
  \/ \E j \in JobIds, update \in Outcomes : CancelUpdate(j, update)
  \/ \E j \in JobIds, release \in Outcomes : CancelRelease(j, release)
  \/ \E j \in JobIds, success \in BOOLEAN : CompletionRead(j, success)
  \/ \E j \in JobIds, update \in Outcomes : CompletionUpdate(j, update)
  \/ \E j \in JobIds, release \in Outcomes : CompletionRelease(j, release)
  \/ \E w \in Workers : ProcessQueue(w)
  \/ \E r \in Requests, j \in JobIds, spec \in JobSpecs : SvcCreateJob(r, j, spec)
  \/ \E r \in Requests : SvcGet(r)
  \/ \E r \in Requests, update \in Outcomes : SvcUpdateGpu(r, update)
  \/ \E r \in Requests, patch \in Outcomes : SvcPatchJob(r, patch)
  \/ \E r \in Requests, j \in JobIds, op \in {"complete", "fail"} : SvcFinishRead(r, j, op)
  \/ \E r \in Requests, update \in Outcomes : SvcRelease(r, update)
  \/ \E r \in Requests, update \in Outcomes : SvcFinish(r, update)
  \/ \E j \in JobIds : CancelRefused(j)
  \/ \E gpu_order \in Orderings(GpuIds), job_order \in Orderings(JobIds) :
       RebalanceGpus(gpu_order, job_order)
  \/ \E r \in Requests, j \in JobIds : ApiCancelRead(r, j)
  \/ \E r \in Requests, j \in JobIds : ApiCancelRefused(r, j)
  \/ \E r \in Requests, patch \in Outcomes : ApiCancelPatch(r, patch)
  \/ \E created \in SUBSET JobIds : DemoSubmit(created)
  \/ DemoFind
  \/ DemoWait
  \/ DemoAllocateGpu
  \/ \E update \in Outcomes : DemoUpdateJob(update)
  \/ DemoMonitorRaises
  \/ DemoCleanup
  \/ \E p \in Provisions : ProvisionCheck(p)
  \/ \E p \in Provisions, best_offer \in BestOffers : ProvisionOffer(p, best_offer)
  \/ \E p \in Provisions, outcome \in Outcomes : ProvisionInstance(p, outcome)
  \/ \E p \in Provisions, state \in {"ready", "failed", "raises"} : ProvisionWait(p, state)
  \/ \E i \in 1..MaxSpotRows, state \in {"notice", "failed"} : MonitorSpot(i, state)
  \/ \E i \in 1..MaxSpotRows : SpotAllocate(i)
  \/ \E i \in 1..MaxSpotRows, terminate \in Outcomes : SpotRelease(i, terminate)
  \/ \E i \in 1..MaxSpotRows, outcome \in Outcomes : TerminateGpu(i, outcome)
  \/ \E p \in Provisions : SweepStart(p)
  \/ \E p \in Provisions : AllocateAcquire(p)
  \/ \E p \in Provisions : AllocateFind(p)
  \/ \E p \in Provisions : AllocateSpot(p)
  \/ \E p \in Provisions, update \in Outcomes : AllocateUpdate(p, update)

Spec == Init /\ [][Next]_vars

\* ------------------------------------------- functions on their own
\* A function of the program applied once to arguments drawn from small
\* sets: call holds the arguments, then the result.
FindOfferCalls ==
  {[fn |-> "provision_gpu", arg |-> [responses |-> r, max_price |-> m],
    out |-> NoOffer, done |-> FALSE] : r \in Responses, m \in MaxPrices}

\* provision_gpu up to the offer it goes on to provision (None: it returns).
ApplyFindOffer ==
  /\ call.fn = "provision_gpu"
  /\ ~call.done
  /\ call' = [call EXCEPT !.out = BestSpotOffer(call.arg.responses,
                                                EffectiveMaxPrice(call.arg.max_price)),
                          !.done = TRUE]
  /\ UNCHANGED <<deployment, trip, fleet, max_jobs, backlog, nvmlVars, cancel_error,
                 coreVars, svcVars, demoVars, spotVars>>

\* CostTracker with its times and prices.  Times are seconds, prices are
\* cents per hour; the sets keep hours * cost_per_hour a whole number.
SecondsPerHour == 3600
NoTime == -1
StartTimes == {0, 1800, 3600}
StopTimes == {3600, 7200}
CostsPerHour == {50, 300}
NoUsage == [found |-> FALSE]

\* start_tracking: usage_history[gpu_id] is a new session.
start_tracking(h, gpu_id, cost_per_hour, now) ==
  [g \in DOMAIN h \cup {gpu_id} |->
     IF g = gpu_id
     THEN [cost_per_hour |-> cost_per_hour, start_time |-> now, total_cost |-> 0,
           total_seconds |-> 0, end_time |-> NoTime]
     ELSE h[g]]

\* stop_tracking: None for a GPU that has no session; otherwise the hours
\* since start_time, their cost and the end time are written into the
\* session, which is returned.
stop_tracking_from_zero(h, gpu_id, now) ==
  IF gpu_id \notin DOMAIN h THEN [result |-> NoUsage, usage_history |-> h]
  ELSE LET usage == [h[gpu_id] EXCEPT
                       !.total_seconds = now,
                       !.total_cost = (now * h[gpu_id].cost_per_hour) \div SecondsPerHour,
                       !.end_time = now]
       IN [result |-> usage, usage_history |-> [h EXCEPT ![gpu_id] = usage]]
stop_tracking(h, gpu_id, now) ==
  IF gpu_id \notin DOMAIN h THEN [result |-> NoUsage, usage_history |-> h]
  ELSE LET seconds == now - h[gpu_id].start_time
           usage == [h[gpu_id] EXCEPT
                       !.total_seconds = seconds,
                       !.total_cost = (seconds * h[gpu_id].cost_per_hour) \div SecondsPerHour,
                       !.end_time = now]
       IN [result |-> usage, usage_history |-> [h EXCEPT ![gpu_id] = usage]]

\* The tracker after a sequence of start_tracking calls on a new tracker.
RECURSIVE Tracked(_)
Tracked(starts) ==
  IF starts = <<>> THEN <<>>
  ELSE LET c == starts[Len(starts)]
       IN start_tracking(Tracked(SubSeq(starts, 1, Len(starts) - 1)),
                         c.gpu_id, c.cost_per_hour, c.now)

StartCalls == [gpu_id : GpuIds, cost_per_hour : CostsPerHour, now : StartTimes]
StartSequences ==
  {<<>>} \cup {<<a>> : a \in StartCalls}
         \cup {q \in {<<a, b>> : a \in StartCalls, b \in StartCalls} : q[2].now >= q[1].now}

StopTrackingCalls ==
  {[fn |-> "stop_tracking", arg |-> [starts |-> q, gpu_id |-> g, now |-> t],
    out |-> [result |-> NoUsage, usage_history |-> <<>>], done |-> FALSE] :
     q \in StartSequences, g \in GpuIds, t \in StopTimes}

ApplyStopTracking ==
  /\ call.fn = "stop_tracking"
  /\ ~call.done
  /\ call' = [call EXCEPT !.out = stop_tracking(Tracked(call.arg.starts),
                                               call.arg.gpu_id, call.arg.now),
                          !.done = TRUE]
  /\ UNCHANGED <<deployment, trip, fleet, max_jobs, backlog, nvmlVars, cancel_error,
                 coreVars, svcVars, demoVars, spotVars>>

\* GPUOptimizer.model_configs as _find_optimal_batch receives them, and a
\* configuration that does not support batching.  memory_per_unit is
\* memory_per_image, or twice memory_per_token.
ModelConfigs ==
  {[model_name |-> "phi-2", max_batch_size |-> 4, base_memory |-> 16000,
    memory_per_unit |-> 1, supports_batching |-> TRUE],
   [model_name |-> "deepseek-coder", max_batch_size |-> 2, base_memory |-> 24000,
    memory_per_unit |-> 2, supports_batching |-> TRUE],
   [model_name |-> "stable-diffusion-xl", max_batch_size |-> 4, base_memory |-> 12000,
    memory_per_unit |-> 3000, supports_batching |-> TRUE],
   [model_name |-> "phi-2", max_batch_size |-> 4, base_memory |-> 16000,
    memory_per_unit |-> 1, supports_batching |-> FALSE]}

\* JobPriority.LOW, NORMAL, HIGH; ages in whole hours; the prompts of one
\* queue have one length, so their uniformity is 1.
Priorities == {0, 50, 100}
AgeHours == {0, 1}
PromptLengths == {1000, 8000}
AvailableMemories == {10000, 20000, 30000, 80000}
MaxQueue == 3

\* Queues as _get_candidate_jobs returns them: priority descending, then
\* created_at ascending (older first).
QueueJobs == [priority : Priorities, age_hours : AgeHours]
Before(a, b) ==
  a.priority > b.priority \/ (a.priority = b.priority /\ a.age_hours >= b.age_hours)
Listings == UNION {[1..n -> QueueJobs] : n \in 1..MaxQueue}
Queues == {q \in Listings : \A i \in 1..(Len(q) - 1) : Before(q[i], q[i + 1])}

\* _calculate_batch_memory for n jobs with prompts of one length: base
\* memory plus memory_per_image for each job, or plus
\* (1.5 tokens per character) x memory_per_token x n.
CalculateBatchMemory(config, prompt_length, n) ==
  IF n = 0 THEN 0
  ELSE IF config.model_name = "stable-diffusion-xl"
  THEN config.base_memory + config.memory_per_unit * n
  ELSE config.base_memory + (((prompt_length * 3) \div 2) * config.memory_per_unit * n) \div 2

\* _calculate_job_score: priority x (1 + age in hours).
CalculateJobScore(job) == job.priority * (1 + job.age_hours)

\* _calculate_batch_score of the window of k jobs from position i, times
\* max_batch_size: the priority scores summed, x (1 + k / max_batch_size),
\* x 1 for uniform jobs.
RECURSIVE PriorityScores(_, _, _)
PriorityScores(queue, i, k) ==
  IF k = 0 THEN 0 ELSE CalculateJobScore(queue[i]) + PriorityScores(queue, i + 1, k - 1)

CalculateBatchScore(queue, i, k, config) ==
  PriorityScores(queue, i, k) * (config.max_batch_size + k)

\* The windows _find_optimal_batch tries, as <<batch_size, i>>, and those
\* whose memory fits.
Windows(queue, config) ==
  {w \in (1..Len(queue)) \X (1..Len(queue)) :
     w[1] <= config.max_batch_size /\ w[2] + w[1] - 1 <= Len(queue)}

FittingWindows(queue, available_memory, config, prompt_length) ==
  {w \in Windows(queue, config) :
     CalculateBatchMemory(config, prompt_length, w[1]) <= available_memory}

\* _find_optimal_batch: without batching, the first job; otherwise the
\* loops over batch_size and i keep a window only if its score is strictly
\* above the best so far, which starts at 0: the result is the first
\* window, in loop order, of the highest score above 0, or the empty batch.
\* The batch is given as its first position and size.
FindOptimalBatch(queue, available_memory, config, prompt_length) ==
  IF ~config.supports_batching
  THEN [start |-> 1, size |-> 1, score |-> CalculateJobScore(queue[1]) * config.max_batch_size]
  ELSE LET fit == FittingWindows(queue, available_memory, config, prompt_length)
           Score(w) == CalculateBatchScore(queue, w[2], w[1], config)
           scoring == {w \in fit : Score(w) > 0}
           Earlier(a, b) == a[1] < b[1] \/ (a[1] = b[1] /\ a[2] <= b[2])
       IN IF scoring = {} THEN [start |-> 0, size |-> 0, score |-> 0]
          ELSE LET best == CHOOSE w \in scoring :
                             \A o \in scoring :
                               \/ Score(w) > Score(o)
                               \/ Score(w) = Score(o) /\ Earlier(w, o)
               IN [start |-> best[2], size |-> best[1], score |-> Score(best)]

FindBatchCalls ==
  {[fn |-> "_find_optimal_batch",
    arg |-> [jobs |-> q, available_memory |-> m, config |-> c, prompt_length |-> l],
    out |-> [start |-> 0, size |-> 0, score |-> 0], done |-> FALSE] :
     q \in Queues, m \in AvailableMemories, c \in ModelConfigs, l \in PromptLengths}

ApplyFindBatch ==
  /\ call.fn = "_find_optimal_batch"
  /\ ~call.done
  /\ call' = [call EXCEPT !.out = FindOptimalBatch(call.arg.jobs, call.arg.available_memory,
                                                  call.arg.config, call.arg.prompt_length),
                          !.done = TRUE]
  /\ UNCHANGED <<deployment, trip, fleet, max_jobs, backlog, nvmlVars, cancel_error,
                 coreVars, svcVars, demoVars, spotVars>>

\* optimize_gpu_allocation: the candidate jobs (QUEUED jobs of the
\* configured models, by priority and age) are grouped by model, in the
\* order the models first appear; each group is given to
\* _find_optimal_batch, and a group's batch replaces the best so far only
\* if its score is strictly above it, starting from 0.  FindOptimalBatch
\* gives each score times the model's max_batch_size, so two scores are
\* compared cross-multiplied.
ConfiguredModels == {c.model_name : c \in ModelConfigs}
ModelConfig(model_name) ==
  CHOOSE c \in ModelConfigs : c.model_name = model_name /\ c.supports_batching

GroupJobsByModel(queued_jobs, model_name) ==
  LET OfModel(job) == job.model_name = model_name
  IN SelectSeq(queued_jobs, OfModel)

FirstSeen(queued_jobs, model_name) ==
  CHOOSE i \in 1..Len(queued_jobs) :
     /\ queued_jobs[i].model_name = model_name
     /\ \A k \in 1..(i - 1) : queued_jobs[k].model_name # model_name

OptimizeGpuAllocation(queued_jobs, available_memory, prompt_length) ==
  LET groups == {queued_jobs[i].model_name : i \in 1..Len(queued_jobs)}
      Batch(m) == FindOptimalBatch(GroupJobsByModel(queued_jobs, m), available_memory,
                                   ModelConfig(m), prompt_length)
      Above(a, b) == Batch(a).score * ModelConfig(b).max_batch_size
                       > Batch(b).score * ModelConfig(a).max_batch_size
      scoring == {m \in groups : Batch(m).score > 0}
  IN IF scoring = {} THEN [model_name |-> "none", start |-> 0, size |-> 0]
     ELSE LET best == CHOOSE m \in scoring :
                        \A o \in scoring :
                          \/ Above(m, o)
                          \/ ~Above(o, m) /\ FirstSeen(queued_jobs, m) <= FirstSeen(queued_jobs, o)
          IN [model_name |-> best, start |-> Batch(best).start, size |-> Batch(best).size]

\* Candidate queues of jobs of the configured models.
OptimizerJobs == [priority : Priorities, age_hours : AgeHours, model_name : ConfiguredModels]
CandidateQueues ==
  {q \in UNION {[1..n -> OptimizerJobs] : n \in 1..MaxQueue} :
     \A i \in 1..(Len(q) - 1) : Before(q[i], q[i + 1])}

OptimizeCalls ==
  {[fn |-> "optimize_gpu_allocation",
    arg |-> [queued_jobs |-> q, available_memory |-> m, prompt_length |-> l],
    out |-> [model_name |-> "none", start |-> 0, size |-> 0], done |-> FALSE] :
     q \in CandidateQueues, m \in AvailableMemories, l \in PromptLengths}

ApplyOptimize ==
  /\ call.fn = "optimize_gpu_allocation"
  /\ ~call.done
  /\ call' = [call EXCEPT !.out = OptimizeGpuAllocation(call.arg.queued_jobs,
                                                       call.arg.available_memory,
                                                       call.arg.prompt_length),
                          !.done = TRUE]
  /\ UNCHANGED <<deployment, trip, fleet, max_jobs, backlog, nvmlVars, cancel_error,
                 coreVars, svcVars, demoVars, spotVars>>

\* JobManager._process_queue: list_jobs filters on organization and status
\* and limits the rows; its query names no order, so the QUEUED rows come
\* back in whatever order the store gives them (any listing), and the loop
\* tries them one after the other in that order.
\* list_jobs: the rows matching the filters, cut to the first `limit`;
\* _process_queue asks with limit=10.
SweepLimit == 10
ListJobs(rows, limit) ==
  [i \in 1..(IF Len(rows) <= limit THEN Len(rows) ELSE limit) |-> rows[i]]

ProcessQueueAttempts(queued_jobs) == ListJobs(queued_jobs, SweepLimit)

ProcessQueueCalls ==
  {[fn |-> "_process_queue", arg |-> [queued_jobs |-> q], out |-> <<>>, done |-> FALSE] :
     q \in Listings}

ApplyProcessQueue ==
  /\ call.fn = "_process_queue"
  /\ ~call.done
  /\ call' = [call EXCEPT !.out = ProcessQueueAttempts(call.arg.queued_jobs), !.done = TRUE]
  /\ UNCHANGED <<deployment, trip, fleet, max_jobs, backlog, nvmlVars, cancel_error,
                 coreVars, svcVars, demoVars, spotVars>>

FnInit ==
  /\ deployment = "none"
  /\ call \in FindOfferCalls \cup StopTrackingCalls \cup FindBatchCalls \cup ProcessQueueCalls
              \cup OptimizeCalls
  /\ InitTables

FnNext ==
  \/ ApplyFindOffer
  \/ ApplyStopTracking
  \/ ApplyFindBatch
  \/ ApplyProcessQueue
  \/ ApplyOptimize

FnSpec == FnInit /\ [][FnNext]_vars

\* ------------------------------------------- sweeps over a long queue
\* The QUEUED rows, in store order, by position.
RECURSIVE QueuedRows(_, _)
QueuedRows(status, i) ==
  IF i > Len(status) THEN <<>>
  ELSE IF status[i] = QUEUED THEN <<i>> \o QueuedRows(status, i + 1)
  ELSE QueuedRows(status, i + 1)

\* One sweep, _process_queue: list_jobs returns the first 10 QUEUED rows,
\* and each is tried in turn; a job that fits a free GPU goes RUNNING on
\* it, a job that finds none stays QUEUED.
BacklogSweep ==
  LET listed == ListJobs(QueuedRows(backlog.status, 1), SweepLimit)
      tried == {listed[k] : k \in 1..Len(listed)}
  IN /\ deployment = "backlog"
     /\ backlog' = [backlog EXCEPT !.status =
                      [i \in 1..Len(backlog.status) |->
                         IF i \in tried /\ backlog.fits[i] THEN RUNNING ELSE backlog.status[i]]]
     /\ UNCHANGED <<deployment, trip, fleet, max_jobs, call, cancel_error, nvmlVars,
                    coreVars, svcVars, demoVars, spotVars>>

BacklogInit ==
  /\ deployment = "backlog"
  /\ call = NoCall
  /\ InitTables

\* Every completion and every cancellation of a RUNNING job ends with a
\* sweep, so sweeps keep coming: weak fairness of the sweep.
BacklogSpec == BacklogInit /\ [][BacklogSweep]_vars /\ WF_vars(BacklogSweep)

\* ------------------------------------------- the metrics module's threads
\* Threads of one process calling initialize_nvml and shutdown_nvml, with
\* pynvml importable or not.
NvmlInit ==
  /\ deployment = "metrics"
  /\ call = NoCall
  /\ InitTables

NvmlNext ==
  \/ \E t \in Threads, fn \in {"initialize_nvml", "shutdown_nvml"} : NvmlCall(t, fn)
  \/ \E t \in Threads : NvmlAcquire(t)
  \/ \E t \in Threads, outcome \in Outcomes : NvmlLibraryCall(t, outcome)
  \/ \E t \in Threads : NvmlSetFlag(t)

NvmlSpec == NvmlInit /\ [][NvmlNext]_vars

\* ---------------------------------------------------------- properties
RECURSIVE SumMemory(_, _)
SumMemory(S, table) ==
  IF S = {} THEN 0
  ELSE LET j == CHOOSE x \in S : TRUE
       IN table[j].memory_required + SumMemory(S \ {j}, table)

\* The jobs a table binds to GPU g.
Bound(table, g) == {j \in JobIds : table[j].status # ABSENT /\ table[j].gpu_id = g}
RunningOn(table, g) == {j \in Bound(table, g) : table[j].status = RUNNING}

\* No handler and no request is in flight.
Quiescent ==
  /\ Active = {}
  /\ \A r \in Requests : req[r].pc = "idle"
  /\ \A p \in Provisions : provision[p].pc = "idle"

AllowedTransitions ==
  { <<ABSENT, QUEUED>>, <<QUEUED, RUNNING>>, <<RUNNING, COMPLETED>>,
    <<RUNNING, FAILED>>, <<QUEUED, CANCELLED>>, <<RUNNING, CANCELLED>> }

\* C1: for every GPU, in every reachable state,
\* 0 <= available_memory <= total_memory (in the service tables:
\* 0 <= memory_total - memory_allocated <= memory_total).
C1_MemoryWithinTotal ==
  \A g \in GpuIds :
    /\ 0 <= gpus[g].available_memory
    /\ gpus[g].available_memory <= GpuTotal(g)
    /\ 0 <= Free(gpu_resources[g], g)
    /\ Free(gpu_resources[g], g) <= GpuTotal(g)

\* C2: two allocate_for_job calls against one GPU never both bind it when
\* their combined demand exceeds its memory: the jobs RUNNING on a GPU of
\* the service tables never ask, together, for more than the GPU has.
C2_NoConcurrentOvercommit ==
  \A g \in GpuIds : SumMemory(RunningOn(svc_jobs, g), svc_jobs) <= GpuTotal(g)

\* C3: a job's status changes only along QUEUED->RUNNING,
\* RUNNING->COMPLETED, RUNNING->FAILED, QUEUED->CANCELLED or
\* RUNNING->CANCELLED (and creation, which makes it QUEUED).
C3_OnlyAllowedTransitions ==
  [][\A j \in JobIds :
       /\ jobs'[j].status # jobs[j].status
            => <<jobs[j].status, jobs'[j].status>> \in AllowedTransitions
       /\ svc_jobs'[j].status # svc_jobs[j].status
            => <<svc_jobs[j].status, svc_jobs'[j].status>> \in AllowedTransitions]_vars

\* C4: a job becomes terminal exactly once: whenever cancel (of a job it
\* read as RUNNING) or the completion callback acts on a job whose status
\* is already COMPLETED, FAILED or CANCELLED, the status is left as
\* written; and a release they commit is of a GPU that still counts a job.
C4_TerminalWrittenOnce ==
  [][\A j \in JobIds :
       LET cn == <<"cancel", j>>
           cb == <<"complete", j>>
       IN /\ (/\ jobs[j].status \in Terminal
               /\ \/ worker'[cb] # worker[cb]
                  \/ worker'[cn] # worker[cn] /\ worker[cn].was = RUNNING)
              => jobs'[j].status = jobs[j].status
          /\ \A w \in {cn, cb} :
               (worker[w].pc \in {"cancel_release", "complete_release"}
                  /\ worker'[w].pc = "sweep")
               => gpus[worker[w].gpu].current_job_count > 0]_vars

\* C5: in every reachable state a job has a gpu_id if and only if its
\* status is RUNNING.
C5_GpuIdIffRunning ==
  \A j \in JobIds :
    /\ jobs[j].status # ABSENT => (jobs[j].gpu_id # NoGpu <=> jobs[j].status = RUNNING)
    /\ svc_jobs[j].status # ABSENT
         => (svc_jobs[j].gpu_id # NoGpu <=> svc_jobs[j].status = RUNNING)

\* C6: for every GPU, available_memory equals total_memory minus the
\* memory_required of the jobs bound to it (stated for the states in which
\* no handler is half way through an allocation or a release).
C6_AvailableIsTotalMinusBound ==
  Quiescent =>
    \A g \in GpuIds :
      /\ gpus[g].available_memory = GpuTotal(g) - SumMemory(Bound(jobs, g), jobs)
      /\ Free(gpu_resources[g], g)
           = GpuTotal(g) - SumMemory(RunningOn(svc_jobs, g), svc_jobs)

\* C7: allocate followed by release of the same (GPU, job) pair, with
\* nothing else touching the GPU in between, leaves the GPU row (memory,
\* job count or bound job, status) exactly as it was before the allocation.
C7_ReleaseUndoesAllocate ==
  \A g \in GpuIds : trip[g].phase = "released" => trip[g].after = trip[g].pre

\* C7 witness: some GPU has been allocated to a job and released from it.
C7_Witness == \E g \in GpuIds : trip[g].phase = "released" /\ trip[g].post # trip[g].pre

\* C8: when the completion callback for a job read as RUNNING on a GPU
\* ends, on whichever path, that GPU has been released: it is AVAILABLE
\* and counts no job.
C8_CompletionAlwaysReleases ==
  [][\A j \in JobIds :
       LET w == <<"complete", j>>
       IN (/\ worker[w].pc \in {"complete_update", "complete_release"}
           /\ worker'[w].pc \in {"idle", "sweep"}
           /\ worker[w].was = RUNNING
           /\ worker[w].gpu # NoGpu)
          => /\ gpus'[worker[w].gpu].status = AVAILABLE
             /\ gpus'[worker[w].gpu].current_job_count = 0]_vars

\* C9: an allocation attempt that misses or fails leaves the job's status
\* as it was (QUEUED): a step of _try_allocate_and_start that does not
\* obtain a GPU never writes FAILED.
C9_AllocationFailureKeepsQueued ==
  [][\A w \in Workers :
       (/\ worker[w].pc = "try"
        /\ worker'[w] # worker[w]
        /\ worker'[w].pc # "update")
       => jobs'[Head(worker[w].todo)].status = jobs[Head(worker[w].todo)].status]_vars

\* C10: allocation and release are all-or-nothing across GPU, job and cost
\* session: whenever no handler is in flight, a GPU is in use exactly when
\* a RUNNING job is bound to it, and exactly then its cost session is open.
C10_AllOrNothing ==
  Quiescent =>
    \A g \in GpuIds :
      /\ gpus[g].status = IN_USE <=> RunningOn(jobs, g) # {}
      /\ usage_history[g].state = "open" <=> RunningOn(jobs, g) # {}
      /\ gpu_resources[g].status = IN_USE <=> RunningOn(svc_jobs, g) # {}

\* C11: cancelling a QUEUED job makes it CANCELLED and leaves every GPU
\* record unchanged: the write of a cancel that read the job as QUEUED
\* changes no GPU row, sets no status other than CANCELLED, and ends the
\* handler without a release.
C11_CancelQueuedTouchesNoGpu ==
  [][/\ \A j \in JobIds :
          LET w == <<"cancel", j>>
          IN (worker[w].pc = "cancel_update" /\ worker[w].was = QUEUED
                /\ worker'[w] # worker[w])
             => /\ gpus' = gpus
                /\ worker'[w].pc = "idle"
                /\ jobs'[j].status \in {CANCELLED, jobs[j].status}
     /\ \A r \in Requests :
          (req[r].pc = "cancel_patch" /\ req[r].was = QUEUED /\ req'[r] # req[r])
          => /\ gpu_resources' = gpu_resources
             /\ req'[r].pc = "idle"
             /\ svc_jobs'[req[r].job].status \in {CANCELLED, svc_jobs[req[r].job].status}]_vars

\* C11 witness: a job has been cancelled and no GPU has ever been
\* allocated, so the job was QUEUED when it was cancelled.
C11_Witness ==
  /\ deployment = "core"
  /\ \E j \in JobIds : jobs[j].status = CANCELLED
  /\ \A g \in GpuIds : gpus[g] = InitGpu(g) /\ usage_history[g] = NoSession

\* C12: cancelling a RUNNING job releases the GPU bound to it before the
\* cancel returns, and touches no other GPU, at every cancel entry point:
\* when a cancel that read the job as RUNNING on a GPU returns after writing
\* CANCELLED, that GPU no longer holds the job.
C12_CancelRunningReleasesGpu ==
  [][/\ \A j \in JobIds :
          LET w == <<"cancel", j>>
              g == worker[w].gpu
          IN /\ (worker[w].pc = "cancel_update" /\ worker[w].was = RUNNING
                   /\ g # NoGpu /\ worker'[w].pc = "idle")
                => jobs' = jobs
             /\ (worker[w].pc = "cancel_release" /\ worker'[w].pc = "sweep")
                => /\ gpus'[g] # gpus[g]
                   /\ \A h \in GpuIds \ {g} : gpus'[h] = gpus[h]
     /\ \A r \in Requests :
          (/\ req[r].pc = "cancel_patch" /\ req[r].was = RUNNING
           /\ req[r].cands # <<>>
           /\ req'[r].pc = "idle"
           /\ svc_jobs'[req[r].job].status = CANCELLED)
          => LET g == Head(req[r].cands)
             IN /\ gpu_resources'[g].current_job_id # req[r].job
                /\ \A h \in GpuIds \ {g} : gpu_resources'[h] = gpu_resources[h]]_vars

\* C13: cancel of a job whose status is COMPLETED, FAILED or CANCELLED
\* fails with an error and mutates neither the job nor any GPU: no cancel
\* handler gets past the status check on such a job, and the step that
\* refuses a cancel changes no table.
C13_CancelTerminalRefused ==
  [][/\ \A j \in JobIds :
          (jobs[j].status \in Terminal /\ worker[<<"cancel", j>>].pc = "idle")
          => worker'[<<"cancel", j>>].pc = "idle"
     /\ \A r \in Requests :
          (req[r].pc = "idle" /\ req'[r].pc = "cancel_patch")
          => svc_jobs[req'[r].job].status \notin Terminal
     /\ cancel_error' # NoJob
          => /\ jobs' = jobs /\ gpus' = gpus /\ usage_history' = usage_history
             /\ svc_jobs' = svc_jobs /\ gpu_resources' = gpu_resources
             /\ worker' = worker /\ req' = req]_vars

\* C13 witness: a cancel has just been refused on a terminal job.
C13_Witness ==
  /\ cancel_error # NoJob
  /\ \/ deployment = "core" /\ jobs[cancel_error].status \in Terminal
     \/ deployment = "service" /\ svc_jobs[cancel_error].status \in Terminal

\* C14: a release for a (GPU, job) pair in which the job is not bound to
\* the GPU raises and mutates neither record: a release_gpu call on a GPU
\* that holds no job at all (core), or that holds another job or none
\* (service), leaves the GPU row and the job row as they are.
C14_ReleaseOfUnboundRefused ==
  [][/\ \A w \in Workers :
          (/\ worker[w].pc \in {"cancel_release", "complete_release"}
           /\ worker'[w] # worker[w]
           /\ gpus[worker[w].gpu].current_job_count = 0)
          => gpus' = gpus /\ jobs' = jobs
     /\ \A r \in Requests :
          (/\ req[r].pc = "release"
           /\ req'[r] # req[r]
           /\ gpu_resources[Head(req[r].cands)].current_job_id # req[r].job)
          => /\ gpu_resources' = gpu_resources
             /\ svc_jobs' = svc_jobs
             /\ req'[r].pc = "idle"]_vars

\* C15: on every GPU, in every reachable state, current_job_count is at
\* most the configured maximum; and an allocation attempt whose GPU would
\* go above the maximum is rejected and leaves every GPU's count, memory
\* and status as they were.
C15_JobCountWithinLimit ==
  [][/\ \A g \in GpuIds : gpus'[g].current_job_count <= max_jobs'
     /\ \A w \in Workers :
          (/\ worker[w].pc = "try"
           /\ worker'[w] # worker[w]
           /\ LET j == Head(worker[w].todo)
                  fit == BestFit(JobOrg(j), RequiredMinMemory(jobs[j].model_name),
                                 ModelCapability(jobs[j].model_name))
              IN /\ fit # {}
                 /\ \A g \in fit : gpus[g].current_job_count + 1 > max_jobs)
          => gpus' = gpus /\ worker'[w].pc # "update"]_vars

\* C15 witness: under a limit of no job per GPU a job that a GPU fits has
\* been turned down, and the GPUs are as they were registered.
C15_Witness ==
  /\ deployment = "core"
  /\ max_jobs = 0
  /\ \A g \in GpuIds : gpus[g] = InitGpu(g)
  /\ \E j \in JobIds :
       /\ jobs[j].status = FAILED
       /\ BestFit(JobOrg(j), RequiredMinMemory(jobs[j].model_name),
                  ModelCapability(jobs[j].model_name)) # {}

\* C16: after a RUNNING job completes and frees its GPU, the sweep that the
\* completion triggers allocates a QUEUED job that now fits: the sweep of
\* the completion callback takes up every QUEUED job, and when a
\* completion that released a GPU returns, no QUEUED job is left, with no
\* request of its own in flight, that the freed GPU, AVAILABLE again, has
\* the memory for.
C16_CompletionSweepStartsQueued ==
  [][/\ \A j \in JobIds :
          LET w == <<"complete", j>>
          IN (worker[w].pc = "sweep" /\ worker'[w] # worker[w])
             => \A k \in JobIds :
                  jobs[k].status = QUEUED
                  => \E i \in DOMAIN worker'[w].todo : worker'[w].todo[i] = k
     /\ \A r \in Requests :
          (/\ req[r].pc = "finish" /\ req[r].op = "complete"
           /\ req[r].cands # <<>>
           /\ req'[r].pc = "idle"
           /\ svc_jobs'[req[r].job].status = COMPLETED)
          => LET g == Head(req[r].cands)
             IN \A k \in JobIds :
                  ~ /\ svc_jobs'[k].status = QUEUED
                    /\ \A q \in Requests : req'[q].job # k
                    /\ gpu_resources'[g].status = AVAILABLE
                    /\ Free(gpu_resources'[g], g) >= svc_jobs'[k].memory_required]_vars

\* C17: allocate binds a job only to a GPU that, at the moment of binding,
\* is AVAILABLE, has available_memory >= the job's required memory and has
\* the capability the job's model requires.
C17_BindsOnlyFittingGpu ==
  [][/\ \A w \in Workers :
          (worker[w].pc = "try" /\ worker'[w].pc = "update")
          => LET j == Head(worker[w].todo)
                 g == worker'[w].got
             IN /\ gpus[g].status = AVAILABLE
                /\ gpus[g].available_memory >= jobs[j].memory_required
                /\ ModelCapability(jobs[j].model_name) \in {"any", GpuCapability(g)}
     /\ \A r \in Requests :
          (req[r].pc = "update" /\ req'[r].pc = "patch")
          => LET j == req[r].job
                 g == Head(req[r].cands)
             IN /\ gpu_resources[g].status = AVAILABLE
                /\ Free(gpu_resources[g], g) >= svc_jobs[j].memory_required]_vars

\* C18: among the GPUs eligible for a job, allocate binds one with the
\* least memory left over, and among those the one with the lowest
\* cost_per_hour, in every pool: the core's gpus, the service's
\* gpu_resources and the demo's gpus table.
C18_BestFitThenCheapest ==
  [][/\ \A w \in Workers :
          (worker[w].pc = "try" /\ worker'[w].pc = "update")
          => LET j == Head(worker[w].todo)
                 g == worker'[w].got
             IN \A h \in GpuIds :
                  Eligible(h, JobOrg(j), RequiredMinMemory(jobs[j].model_name),
                           ModelCapability(jobs[j].model_name))
                  => \/ gpus[g].available_memory < gpus[h].available_memory
                     \/ /\ gpus[g].available_memory = gpus[h].available_memory
                        /\ GpuCost(g) <= GpuCost(h)
     /\ \A r \in Requests :
          (req[r].pc = "update" /\ req'[r].pc = "patch")
          => LET j == req[r].job
                 g == Head(req[r].cands)
             IN \A h \in GpuIds :
                  (/\ GpuOrg(h) = JobOrg(j)
                   /\ gpu_resources[h].status = AVAILABLE
                   /\ Free(gpu_resources[h], h) >= svc_jobs[j].memory_required)
                  => \/ Free(gpu_resources[g], g) < Free(gpu_resources[h], h)
                     \/ /\ Free(gpu_resources[g], g) = Free(gpu_resources[h], h)
                        /\ GpuCost(g) <= GpuCost(h)
     /\ (demo.pc = "allocate" /\ demo'.pc = "update")
          => LET j == Head(demo.todo)
                 g == Head(demo.cands)
             IN \A h \in GpuIds :
                  (/\ GpuOrg(h) = JobOrg(j)
                   /\ demo_gpus[h].status = AVAILABLE
                   /\ GpuTotal(h) >= gpu_jobs[j].min_memory)
                  => \/ GpuTotal(g) < GpuTotal(h)
                     \/ GpuTotal(g) = GpuTotal(h) /\ GpuCost(g) <= GpuCost(h)]_vars

\* C19: each organization's GPU pool is allocated independently: in every
\* reachable state a job that is assigned a GPU is assigned one owned by
\* the job's own organization.
C19_NoCrossOrganizationBinding ==
  /\ \A j \in JobIds :
       (jobs[j].status # ABSENT /\ jobs[j].gpu_id # NoGpu)
       => GpuOrg(jobs[j].gpu_id) = JobOrg(j)
  /\ \A j \in JobIds :
       (svc_jobs[j].status # ABSENT /\ svc_jobs[j].gpu_id # NoGpu)
       => GpuOrg(svc_jobs[j].gpu_id) = JobOrg(j)
  /\ \A j \in JobIds :
       (gpu_jobs[j].status # ABSENT /\ gpu_jobs[j].gpu_id # NoGpu)
       => GpuOrg(gpu_jobs[j].gpu_id) = JobOrg(j)

\* C20: the spot manager never has more than max_spot_instances live spot
\* leases (spot rows being provisioned or available), whatever the
\* interleaving of provision_gpu calls.
C20_SpotLeasesWithinLimit ==
  Cardinality({i \in 1..Len(spot_gpus) : spot_gpus[i].status \in {PROVISIONING, AVAILABLE}})
    <= max_spot_instances

\* The prices a provider that answered offers within a limit.
PricesWithin(responses, n, limit) ==
  {responses[n].offers[i] : i \in DOMAIN responses[n].offers} \cap 0..limit

\* C21: provision considers exactly the offers of all providers priced at
\* or below max_price (the price threshold when no max_price is given): if
\* there are none it goes on with no offer, otherwise the offer it goes on
\* with is one of them and none of them is cheaper.
C21_CheapestOfferWithinMaxPrice ==
  (call.fn = "provision_gpu" /\ call.done)
  => LET responses == call.arg.responses
         limit == IF call.arg.max_price = NoPrice THEN price_threshold
                  ELSE call.arg.max_price
         answered == {n \in ProviderNames : responses[n].ok}
         within == UNION {PricesWithin(responses, n, limit) : n \in answered}
     IN IF within = {} THEN call.out = NoOffer
        ELSE /\ call.out.provider \in answered
             /\ call.out.price \in PricesWithin(responses, call.out.provider, limit)
             /\ \A x \in within : call.out.price <= x

\* The same responses with every provider that failed answering no offer.
FailuresAsEmpty(responses) ==
  [n \in ProviderNames |-> IF responses[n].ok THEN responses[n]
                           ELSE [ok |-> TRUE, offers |-> <<>>]]

\* C22: when a provider's offer query fails, only that provider's offers
\* are lost: the offer provision goes on with is the one it would go on
\* with had the failing providers answered with no offers, so the cheapest
\* acceptable offer of the remaining providers is still selected.
C22_ProviderFailureIsolated ==
  (call.fn = "provision_gpu" /\ call.done)
  => /\ call.out = BestSpotOffer(FailuresAsEmpty(call.arg.responses),
                                 EffectiveMaxPrice(call.arg.max_price))
     /\ \A n \in ProviderNames :
          (/\ call.arg.responses[n].ok
           /\ PricesWithin(call.arg.responses, n,
                           EffectiveMaxPrice(call.arg.max_price)) # {})
          => /\ call.out # NoOffer
             /\ \A x \in PricesWithin(call.arg.responses, n,
                                       EffectiveMaxPrice(call.arg.max_price)) :
                  call.out.price <= x

\* C22 witness: a provider failed and an offer of another was selected.
C22_Witness ==
  /\ call.fn = "provision_gpu" /\ call.done
  /\ \E n \in ProviderNames : ~call.arg.responses[n].ok
  /\ call.out # NoOffer


\* C23: polling a newly provisioned spot GPU ends after the fixed number of
\* attempts with the row settled: when the wait of provision_gpu is over,
\* the row that was PROVISIONING is AVAILABLE or OFFLINE.
C23_WaitEndsAvailableOrOffline ==
  [][\A p \in Provisions :
       (provision[p].pc = "wait" /\ provision'[p].pc = "idle")
         => spot_gpus'[provision[p].row].status \in {AVAILABLE, OFFLINE}]_vars


\* C24: a spot GPU is terminated only when it has no jobs: every step that
\* has a provider terminate the instance of a spot row finds that row's
\* current_job_count at 0.
C24_TerminatedOnlyWithoutJobs ==
  [][\A i \in 1..Len(spot_gpus) :
       (~spot_gpus[i].terminate_called /\ spot_gpus'[i].terminate_called)
         => spot_gpus'[i].current_job_count = 0]_vars


C26_StartKeepsOtherJobsSession ==
  [][\A g \in GpuIds :
       (usage_history'[g] # usage_history[g] /\ usage_history'[g].state = "open")
         => usage_history[g].job \in {NoJob, usage_history'[g].job}]_vars


\* The last start_tracking call for gpu_id in a sequence of calls (0: none).
LastStart(starts, gpu_id) ==
  LET at == {i \in 1..Len(starts) : starts[i].gpu_id = gpu_id}
  IN IF at = {} THEN 0 ELSE CHOOSE i \in at : \A k \in at : k <= i

\* C27: a closed session's total_cost is the hours between its start and
\* its stop times the cost_per_hour given at its start (here in seconds:
\* total_cost * 3600 = seconds * cost_per_hour); stop_tracking for a GPU
\* that was never started reports no session and leaves the tracker as it was.
C27_ClosedSessionCost ==
  (call.fn = "stop_tracking" /\ call.done) =>
    LET k == LastStart(call.arg.starts, call.arg.gpu_id)
    IN IF k = 0
       THEN /\ call.out.result = NoUsage
            /\ call.out.usage_history = Tracked(call.arg.starts)
       ELSE /\ call.out.result = call.out.usage_history[call.arg.gpu_id]
            /\ call.out.result.end_time = call.arg.now
            /\ call.out.result.total_cost * SecondsPerHour =
                 (call.arg.now - call.arg.starts[k].now) * call.arg.starts[k].cost_per_hour

\* A session started after time 0 at one price, replaced or not, has been
\* closed with a cost above zero.
C27_Witness ==
  /\ call.fn = "stop_tracking" /\ call.done
  /\ LastStart(call.arg.starts, call.arg.gpu_id) # 0
  /\ call.arg.starts[LastStart(call.arg.starts, call.arg.gpu_id)].now > 0
  /\ call.out.result # NoUsage
  /\ call.out.result.total_cost > 0


\* C28: the batch _find_optimal_batch returns never needs more memory than
\* the GPU has available, whatever the queue and the model configuration,
\* the one without batching included.
C28_BatchFitsAvailableMemory ==
  (call.fn = "_find_optimal_batch" /\ call.done) =>
     CalculateBatchMemory(call.arg.config, call.arg.prompt_length, call.out.size)
       <= call.arg.available_memory

\* C29: for a model that supports batching, when some window of the queue
\* fits the available memory, the batch returned is a window of 1 to
\* max_batch_size jobs that fits and whose score no fitting window exceeds.
C29_BestFittingWindow ==
  (call.fn = "_find_optimal_batch" /\ call.done /\ call.arg.config.supports_batching) =>
     LET fit == FittingWindows(call.arg.jobs, call.arg.available_memory,
                               call.arg.config, call.arg.prompt_length)
     IN fit # {} =>
          /\ <<call.out.size, call.out.start>> \in fit
          /\ \A w \in fit :
               CalculateBatchScore(call.arg.jobs, w[2], w[1], call.arg.config)
                 <= call.out.score


\* C30: within one sweep the QUEUED jobs are attempted by priority
\* descending, then submission time ascending: no job is attempted before
\* one of higher priority, or of equal priority and earlier submission.
C30_SweepInPriorityOrder ==
  (call.fn = "_process_queue" /\ call.done) =>
     \A i \in 1..Len(call.out) : \A k \in (i + 1)..Len(call.out) :
        Before(call.out[i], call.out[k])


\* C32: two sweeps of the organization's queue never overlap: no job is at
\* the head of two sweeps (one started by a completion, one by a
\* cancellation, or by two of either) that are both trying to place it.
C32_NoJobInTwoSweeps ==
  \A v, w \in {x \in Workers : x[1] \in {"cancel", "complete"}} :
     ( /\ worker[v].pc \in {"try", "update"}
       /\ worker[w].pc \in {"try", "update"}
       /\ Head(worker[v].todo) = Head(worker[w].todo) ) => v = w


\* C31: within one sweep the spot provisioner is asked at most once,
\* however many of the sweep's jobs find no GPU.
C31_OneSpotRequestPerSweep ==
  \A p \in Provisions : provision[p].spot_calls <= 1

\* C33: a provider call made for one job does not hold up the allocation of
\* another: while one allocate_for_job waits for offers, for the instance
\* or for its status, a sweep whose job fits a GPU that is AVAILABLE can
\* enter allocate_for_job.
C33_ProviderCallsDoNotBlockAllocation ==
  \A p, q \in Provisions :
     ( /\ deployment = "fallback"
       /\ provision[p].pc \in {"offers", "instance", "wait"}
       /\ provision[q].pc = "acquire"
       /\ BestFit(JobOrg(Head(provision[q].todo)),
                  RequiredMinMemory(jobs[Head(provision[q].todo)].model_name),
                  ModelCapability(jobs[Head(provision[q].todo)].model_name)) # {} )
     => ENABLED AllocateAcquire(q)

\* C35: with no GPU free for the job and the marketplace offering an
\* instance at 0.90, within SPOT_INSTANCE_MAX_PRICE, the request made for
\* the job goes on from the offers to provisioning the instance.
C35_OfferWithinMaxPriceIsProvisioned ==
  [][\A p \in Provisions :
       (deployment = "fallback" /\ provision[p].pc = "offers" /\ provision'[p] # provision[p])
         => provision'[p].pc = "instance"]_vars

\* C34: a TERMINATING or OFFLINE that the watch loop wrote on a spot GPU is
\* not overwritten by an allocation or a release: the row does not go back
\* to AVAILABLE or IN_USE.  (Rows a provisioning wait is still polling, and
\* rows that terminate_gpu made TERMINATING, are left out: the watch loop
\* reads only AVAILABLE and busy rows.)
C34_WatchLoopStatusNotOverwritten ==
  [][\A i \in 1..Len(spot_gpus) :
       ( /\ deployment = "spot"
         /\ spot_gpus[i].status \in {TERMINATING, OFFLINE}
         /\ ~spot_gpus[i].terminate_called
         /\ \A p \in Provisions : ~(provision[p].pc = "wait" /\ provision[p].row = i) )
       => spot_gpus'[i].status \notin {AVAILABLE, IN_USE}]_vars

\* C36: a GPU whose status is AVAILABLE has no RUNNING job bound to it (a
\* GPU with a bound RUNNING job is not AVAILABLE): release makes a GPU
\* AVAILABLE only when its current_job_count has come down to zero.
C36_AvailableHasNoRunningJob ==
  \A g \in GpuIds : gpus[g].status = AVAILABLE => RunningOn(jobs, g) = {}

\* C37 as stated: with NVML available every call of initialize_nvml and of
\* shutdown_nvml returns True, nvmlInit is called at most once between
\* shutdowns and nvmlShutdown at most once per initialization.
C37_AlwaysTrueAndCalledOnce ==
  /\ nvml.available => \A t \in Threads : thread[t].done => thread[t].result
  /\ nvml.init_calls <= 1
  /\ nvml.shutdown_calls <= 1

\* C37, amended: the two functions exclude each other under the module
\* lock; with NVML available a call returns True unless the library call it
\* made raised, and then False; nvmlInit returns at most once between
\* shutdowns and nvmlShutdown at most once per initialization, however the
\* threads' calls interleave.
C37_IdempotentUnlessLibraryRaises ==
  /\ Cardinality({t \in Threads : thread[t].pc \in {"locked", "set"}}) <= 1
  /\ nvml.available =>
        \A t \in Threads : thread[t].done => (thread[t].result <=> ~thread[t].raised)
  /\ nvml.init_ok <= 1
  /\ nvml.shutdown_ok <= 1

\* Two threads are in initialize_nvml at once: one has called nvmlInit and
\* not yet set the flag, the other waits for the lock.
C37_Witness ==
  \E t, u \in Threads :
     /\ thread[t].pc = "set" /\ thread[t].fn = "initialize_nvml"
     /\ thread[u].pc = "acquire" /\ thread[u].fn = "initialize_nvml"

\* C38: whenever some window of the queued jobs of a configured model fits
\* the GPU's available memory, optimize_gpu_allocation returns a batch of
\* at least one job, whatever the jobs' priorities (0 included).
C38_FittingWindowGivesBatch ==
  (call.fn = "optimize_gpu_allocation" /\ call.done) =>
     ( (\E m \in ConfiguredModels :
          FittingWindows(GroupJobsByModel(call.arg.queued_jobs, m), call.arg.available_memory,
                         ModelConfig(m), call.arg.prompt_length) # {})
       => call.out.size >= 1 )

\* C39: no queued job is starved by the sweeps: every job that fits a free
\* GPU of its organization is eventually RUNNING, however many jobs that
\* cannot be placed are ahead of it.
C39_NoQueuedJobStarved ==
  <>(\A i \in 1..Len(backlog.fits) : backlog.fits[i] => backlog.status[i] = RUNNING)

====
